---- MODULE Spec2Model ----
(***************************************************************************)
(* Babelfish backend: the translation pipeline (backend/main.py            *)
(* translate_technical_term with the MongoDB, Tavily, Bedrock and          *)
(* ClickHouse services) and the real-time session manager                  *)
(* (services/websocket_manager.py with the /ws endpoint of main.py).       *)
(*                                                                         *)
(* Every coroutine is cut at its awaits: one action is the code that runs  *)
(* between two suspension points of the asyncio event loop.  The external  *)
(* engines (MongoDB, Bedrock, Tavily, ClickHouse, the client side of a     *)
(* socket) answer nondeterministically within what their drivers can       *)
(* return or raise.                                                        *)
(***************************************************************************)
EXTENDS Integers, Sequences, FiniteSets, TLC

----------------------------------------------------------------------------
(* Bounds of the model *)

\* concurrent POST /api/translate calls
MaxCalls == 2
\* translate calls made one after another when every provider answer is explored
MaxAnalysisCalls == 1
\* translate calls made one after another when both channels are explored
MaxRealtimeCalls == 2
\* store_translation calls made one after another
MaxStoreCalls == 3
\* sockets that ever connect while the pipeline runs
MaxPipelineSockets == 1
\* connect calls explored for the session manager on its own
MaxConnects == 3
\* translate messages dispatched to concurrent tasks
MaxDispatchCalls == 2
\* sockets connected while tasks run concurrently
MaxDispatchSockets == 2
\* text frames one receive loop takes
MaxMessages == 3
\* sockets connected while text frames of every kind arrive
MaxMessageSockets == 2
\* voice_input messages handled one after another
MaxVoiceCalls == 2
\* sockets connected while voice_input messages arrive
MaxVoiceSockets == 1
\* POST /api/translate requests made one after another
MaxRoundTripCalls == 2
\* POST /api/voice/synthesize requests handled concurrently
MaxSynthesisCalls == 2
\* non-empty chunks one audio stream yields
MaxChunks == 2

----------------------------------------------------------------------------
(* Program constants *)

\* settings.vector_dimension, "dimensions": 1024, [0.0] * 1024
VectorDimension == 1024
\* search_similar_terms(..., limit=3, ...) in translate_technical_term
SearchLimit == 3
\* process_audio_chunk flushes a buffer longer than this many bytes
BufferThreshold == 4096

----------------------------------------------------------------------------
(* Values *)

Min(a, b) == IF a < b THEN a ELSE b
Max(a, b) == IF a > b THEN a ELSE b

\* Python None, for optional values (session_id, user_agent, find_one result)
None == 0

\* Coroutines (asyncio tasks / HTTP request handlers) of translate
Calls == 1..Max(Max(MaxCalls, MaxStoreCalls), Max(MaxAnalysisCalls, MaxRealtimeCalls))

\* Session ids a client can put in a request or in the /ws/{session_id} path
SessionIds == {1, 2}
\* str(uuid.uuid4()) of call c: distinct from every client id and per call
FreshSessionId(c) == 100 + c
\* the empty string sent as "session_id": a str, so the request model takes it
EmptySessionId == -1
\* `request.session_id or str(uuid.uuid4())`: None and "" are both falsy
ResolveSessionId(given, c) ==
    IF given \in {None, EmptySessionId} THEN FreshSessionId(c) ELSE given

\* WebSocket objects, in the order in which they connect
Sockets == {1, 2, 3}
\* the decoded sizes of the audio chunks explored
ChunkSizes == {2048, 4097}
\* the timeouts given to cleanup_inactive_connections, in ticks of the clock
Timeouts == {1, 3}

\* Characters of the terms: two cases of some letters, and the blank
LowerChar(ch) ==
    CASE ch = "A" -> "a"
      [] ch = "B" -> "b"
      [] OTHER -> ch

\* Terms a client may send as input_text / data['text'].
\*   "ab", "AB"     equal up to case
\*   "ab cd"        contains "ab"
\*   "a b c d", "b a c"   three common words out of four, neither contains the other
Terms ==
    { <<"a", "b">>,
      <<"A", "B">>,
      <<"a", "b", " ", "c", "d">>,
      <<"a", " ", "b", " ", "c", " ", "d">>,
      <<"b", " ", "a", " ", "c">> }

\* A score is the rational n/d (Python computes it as a float; every score the
\* code can produce has a small denominator, so comparing the rationals is
\* comparing the floats).
Score(n, d) == [n |-> n, d |-> d]
ScoreLess(x, y) == x.n * y.d < y.n * x.d
ScoreGeq(x, y) == ~ScoreLess(x, y)

\* threshold=0.7 passed by translate_technical_term
SearchThreshold == Score(7, 10)
\* the literal 0.8 of the fallback gate
GateThreshold == Score(8, 10)

----------------------------------------------------------------------------
(* services/mongodb_vector.py: text similarity *)

\* str.lower()
Lower(s) == [i \in DOMAIN s |-> LowerChar(s[i])]

\* x in y, for strings
IsSubstring(x, y) ==
    \E i \in 0..(Len(y) - Len(x)) : SubSeq(y, i + 1, i + Len(x)) = x

\* set(s.split()): the maximal blank-free pieces of s
WordSet(s) ==
    { SubSeq(s, i, j) : <<i, j>> \in
        { p \in (DOMAIN s) \X (DOMAIN s) :
            /\ p[1] <= p[2]
            /\ \A k \in p[1]..p[2] : s[k] # " "
            /\ (p[1] = 1 \/ s[p[1] - 1] = " ")
            /\ (p[2] = Len(s) \/ s[p[2] + 1] = " ") } }

\* MongoVectorService._calculate_text_similarity
CalculateTextSimilarity(query, term) ==
    LET ql == Lower(query)
        tl == Lower(term)
        qw == WordSet(ql)
        tw == WordSet(tl)
    IN  IF ql = tl THEN Score(1, 1)
        ELSE IF IsSubstring(ql, tl) THEN Score(9, 10)
        ELSE IF IsSubstring(tl, ql) THEN Score(8, 10)
        ELSE IF qw = {} \/ tw = {} THEN Score(0, 1)
        ELSE Score(Cardinality(qw \cap tw), Cardinality(qw \cup tw))

\* {"term": {"$regex": f"^{query_text}$", "$options": "i"}}: query_text goes
\* into the pattern as it is.  The terms of this model hold letters, blanks
\* and, in first place only, the quantifier "*".  A pattern that begins with
\* a quantifier ("^*...") has nothing to repeat: the server rejects the query
\* and the cursor raises.  For letters and blanks the pattern matches exactly
\* the strings equal to the query up to case.
RegexCompiles(query) == query = <<>> \/ Head(query) # "*"
RegexExactMatch(query, term) == RegexCompiles(query) /\ Lower(query) = Lower(term)

----------------------------------------------------------------------------
(* JSON / Python values *)

\* A value: its Python type t, its text s (for a str), its number n in
\* hundredths (for a number) and the translate call `by` in which it arose.
Val(t, s, n, by) == [t |-> t, s |-> s, n |-> n, by |-> by]
Str(s, by) == Val("str", s, 0, by)
Num(n, by) == Val("num", "", n, by)
Null(by) == Val("null", "", 0, by)
Absent(by) == Val("absent", "", 0, by)

\* An embedding: a list of `len` floats, all 0.0 when `zero`
Embedding(len, zero, by) == [len |-> len, zero |-> zero, by |-> by]

----------------------------------------------------------------------------
(* services/mongodb_vector.py: search_similar_terms *)

\* cursor.limit(k)
Take(s, k) == SubSeq(s, 1, Min(k, Len(s)))

\* the documents of s at the indices in idx, in collection order
RECURSIVE Pick(_, _, _)
Pick(s, idx, i) ==
    IF i > Len(s) THEN <<>>
    ELSE (IF i \in idx THEN <<s[i]>> ELSE <<>>) \o Pick(s, idx, i + 1)

\* one entry of the list search_similar_terms returns
SearchResult(doc, score) ==
    [ term |-> doc.term, explanation |-> doc.explanation,
      category |-> doc.category, score |-> score, metadata |-> doc.metadata ]

\* sorted(results, key=score, reverse=True): stable
RECURSIVE InsertByScore(_, _)
InsertByScore(sorted, r) ==
    IF sorted = <<>> THEN <<r>>
    ELSE IF ScoreLess(Head(sorted).score, r.score)
         THEN <<r>> \o sorted
         ELSE <<Head(sorted)>> \o InsertByScore(Tail(sorted), r)

RECURSIVE SortByScore(_)
SortByScore(rs) ==
    IF rs = <<>> THEN <<>>
    ELSE InsertByScore(SortByScore(SubSeq(rs, 1, Len(rs) - 1)), rs[Len(rs)])

RECURSIVE ScoreAndFilter(_, _, _)
ScoreAndFilter(matches, query, threshold) ==
    IF matches = <<>> THEN <<>>
    ELSE LET m == Head(matches)
             score == CalculateTextSimilarity(query, m.term)
         IN  (IF ScoreGeq(score, threshold)
              THEN <<SearchResult(m, score)>> ELSE <<>>)
             \o ScoreAndFilter(Tail(matches), query, threshold)

\* MongoVectorService.search_similar_terms(query_text, limit, threshold) runs
\* two queries on the collection, each an await.

\* the first query: find({"term": {"$regex": ...}}).limit(limit), and the
\* results built from it
ExactMatches(coll, query, limit) ==
    LET exact_matches ==
            Take(SelectSeq(coll, LAMBDA d : RegexExactMatch(query, d.term)), limit)
    IN  [i \in DOMAIN exact_matches |-> SearchResult(exact_matches[i], Score(1, 1))]

\* the second query: find({"$text": {"$search": query_text}}).limit(limit),
\* scored, filtered and sorted.  `hits`: the indices the $text engine matched
\* (the text index also covers explanation and category, whose words the
\* model does not hold).
TextMatches(coll, query, limit, threshold, hits) ==
    SortByScore(ScoreAndFilter(Take(Pick(coll, hits, 1), limit), query, threshold))

----------------------------------------------------------------------------
(* main.py: the fallback gate *)

\* if not vector_results or vector_results[0]['score'] < 0.8
NeedsWebSearch_Leq(vector_results) ==
    \/ vector_results = <<>>
    \/ ~ScoreLess(GateThreshold, vector_results[1].score)

NeedsWebSearch(vector_results) ==
    \/ vector_results = <<>>
    \/ ScoreLess(vector_results[1].score, GateThreshold)

----------------------------------------------------------------------------
(* services/aws_ai.py: the analysis adapter *)

\* What bedrock invoke_model can give back for the text model: an exception
\* ("raise"), a text without braces ("nojson"), a text whose part from the
\* first '{' to the last '}' json.loads rejects ("badjson"), or a text holding
\* one JSON object ("object") with the fields below.
\* `fault` names what is wrong with the answer, for the properties below.
RawObject(c, conf) ==
    [ kind |-> "object", fault |-> "",
      explanation |-> Str("provider explanation", c),
      category |-> Str("Architecture", c),
      confidence |-> Num(conf, c),
      business_impact |-> Str("provider impact", c),
      related_terms |-> Val("list_str", "", 0, c) ]

RawNonObject(c, kind) == [RawObject(c, 0) EXCEPT !.kind = kind, !.fault = kind]

RequiredFields == <<"explanation", "category", "confidence", "business_impact">>

\* the provider answers of call c that the model explores
RawOutputs(c) ==
    { RawNonObject(c, k) : k \in {"raise", "nojson", "badjson"} }
    \cup { RawObject(c, conf) : conf \in {95, 170, -20} }
    \cup { [RawObject(c, 95) EXCEPT ![RequiredFields[i]] = Absent(c),
                                    !.fault = "missing_field"] : i \in 1..4 }
    \cup { [RawObject(c, 95) EXCEPT !.explanation = Null(c),
                                    !.fault = "malformed_value"],
           [RawObject(c, 95) EXCEPT !.category = Num(7, c),
                                    !.fault = "malformed_value"],
           [RawObject(c, 95) EXCEPT !.related_terms = Val("list_other", "", 0, c),
                                    !.fault = "malformed_value"],
           [RawObject(c, 95) EXCEPT !.confidence = Str("high", c),
                                    !.fault = "malformed_confidence"],
           [RawObject(c, 95) EXCEPT !.confidence = Null(c),
                                    !.fault = "malformed_confidence"],
           [RawObject(c, 95) EXCEPT !.related_terms = Absent(c)],
           [RawObject(c, 95) EXCEPT !.related_terms = Str("x, y", c)] }

\* of these, an answer as asked for and an outage
BasicOutputs(c) == {RawObject(c, 95), RawNonObject(c, "raise")}

\* What bedrock invoke_model can give back for the embedding model
EmbeddingOutcomes == {"vector", "no_field", "raise"}

\* AWSBedrockService._generate_embedding
GenerateEmbedding(outcome, c) ==
    CASE outcome = "vector" -> Embedding(VectorDimension, FALSE, c)
      [] outcome = "no_field" -> Embedding(0, FALSE, c)
      [] outcome = "raise" -> Embedding(VectorDimension, TRUE, c)

\* an analysis dict (processing_time, a wall-clock duration, is left out)
Analysis(explanation, category, confidence, business_impact, related_terms, sources, embedding) ==
    [ explanation |-> explanation, category |-> category,
      confidence |-> confidence, business_impact |-> business_impact,
      related_terms |-> related_terms, sources |-> sources,
      embedding |-> embedding ]

NoAnalysis ==
    Analysis(Absent(0), Absent(0), Absent(0), Absent(0), Absent(0), <<>>,
             Embedding(0, FALSE, 0))

\* AWSBedrockService._parse_analysis_response: [ok |-> FALSE] when it raises
\* ("No JSON found", json.JSONDecodeError, "Missing required field", float()
\* rejecting the confidence), else the analysis dict in `analysis`.
ParseAnalysisResponse_NoFieldCheck(raw) ==
    [ ok |-> TRUE,
      analysis |-> Analysis(raw.explanation, raw.category,
                            Num(0, raw.confidence.by), raw.business_impact,
                            raw.related_terms, <<>>, Embedding(0, FALSE, 0)) ]

\* a parser that takes the provider's confidence as it comes
ParseAnalysisResponse_NoClamp(raw) ==
    IF raw.kind # "object" THEN [ok |-> FALSE, analysis |-> NoAnalysis]
    ELSE IF \E i \in 1..Len(RequiredFields) : raw[RequiredFields[i]].t = "absent"
    THEN [ok |-> FALSE, analysis |-> NoAnalysis]
    ELSE IF raw.confidence.t # "num"
    THEN [ok |-> FALSE, analysis |-> NoAnalysis]
    ELSE [ ok |-> TRUE,
           analysis |->
             Analysis(raw.explanation, raw.category, raw.confidence,
                      raw.business_impact,
                      IF raw.related_terms.t \in {"list_str", "list_other"}
                      THEN raw.related_terms
                      ELSE Val("list_empty", "", 0, raw.related_terms.by),
                      <<>>, Embedding(0, FALSE, 0)) ]

ParseAnalysisResponse(raw) ==
    IF raw.kind # "object" THEN [ok |-> FALSE, analysis |-> NoAnalysis]
    ELSE IF \E i \in 1..Len(RequiredFields) : raw[RequiredFields[i]].t = "absent"
    THEN [ok |-> FALSE, analysis |-> NoAnalysis]
    ELSE IF raw.confidence.t # "num"
    THEN [ok |-> FALSE, analysis |-> NoAnalysis]
    ELSE [ ok |-> TRUE,
           analysis |->
             Analysis(raw.explanation, raw.category,
                      Num(Max(0, Min(100, raw.confidence.n)), raw.confidence.by),
                      raw.business_impact,
                      IF raw.related_terms.t \in {"list_str", "list_other"}
                      THEN raw.related_terms
                      ELSE Val("list_empty", "", 0, raw.related_terms.by),
                      <<>>, Embedding(0, FALSE, 0)) ]

\* sources that name the web search whenever it was made
DetermineSources_WhenFetched(existing_definitions, web_context) ==
    (IF existing_definitions # <<>> THEN <<"internal_knowledge_base">> ELSE <<>>)
    \o (IF web_context.fetched THEN <<"web_search">> ELSE <<>>)
    \o <<"ai_analysis">>

\* AWSBedrockService._determine_sources
DetermineSources(existing_definitions, web_context) ==
    (IF existing_definitions # <<>> THEN <<"internal_knowledge_base">> ELSE <<>>)
    \o (IF web_context.fetched /\ web_context.count > 0
        THEN <<"web_search">> ELSE <<>>)
    \o <<"ai_analysis">>

\* AWSBedrockService._fallback_analysis
FallbackAnalysis_Confident(c) ==
    Analysis(Str("fallback explanation", c), Str("Technology", c), Num(95, c),
             Str("fallback impact", c), Val("list_empty", "", 0, c),
             <<"ai_analysis">>, Embedding(VectorDimension, FALSE, c))

FallbackAnalysis(c) ==
    Analysis(Str("fallback explanation", c), Str("Technology", c), Num(50, c),
             Str("fallback impact", c), Val("list_empty", "", 0, c),
             <<"fallback">>, Embedding(VectorDimension, TRUE, c))

\* AWSBedrockService.analyze_technical_term for call c, given the provider's
\* answers raw (text model) and emb (embedding model)
\* an analyze_technical_term whose except branch also takes a failed embedding
AnalyzeTechnicalTerm_EmbeddingFallsBack(c, existing_definitions, web_context, raw, emb) ==
    LET parsed == ParseAnalysisResponse(raw)
    IN  IF raw.kind = "raise" \/ ~parsed.ok \/ emb = "raise" THEN FallbackAnalysis(c)
        ELSE [parsed.analysis EXCEPT
                !.embedding = GenerateEmbedding(emb, c),
                !.sources = DetermineSources(existing_definitions, web_context)]

AnalyzeTechnicalTerm(c, existing_definitions, web_context, raw, emb) ==
    LET parsed == ParseAnalysisResponse(raw)
    IN  IF raw.kind = "raise" \/ ~parsed.ok THEN FallbackAnalysis(c)
        ELSE [parsed.analysis EXCEPT
                !.embedding = GenerateEmbedding(emb, c),
                !.sources = DetermineSources(existing_definitions, web_context)]

----------------------------------------------------------------------------
(* models/conversation.py: ConversationResponse *)

\* pydantic accepts the keyword arguments of ConversationResponse(...) in
\* main.py: str fields hold a str, related_terms a list of str, confidence a
\* float within [0, 1]
ResponseValid(ai) ==
    /\ ai.explanation.t = "str"
    /\ ai.category.t = "str"
    /\ ai.business_impact.t = "str"
    /\ ai.confidence.t = "num" /\ ai.confidence.n >= 0 /\ ai.confidence.n <= 100
    /\ ai.related_terms.t \in {"list_str", "list_empty"}

\* the ConversationResponse built in step 4 of translate_technical_term
Response(session_id, term, ai) ==
    [ session_id |-> session_id, term |-> term,
      explanation |-> ai.explanation, category |-> ai.category,
      confidence |-> ai.confidence, business_impact |-> ai.business_impact,
      related_terms |-> ai.related_terms, sources |-> ai.sources ]

NoResponse == Response(None, <<>>, NoAnalysis)

----------------------------------------------------------------------------
(* State *)

VARIABLES
    translations,          \* MongoDB collection `translations`, in insertion order
    events,                \* ClickHouse table translation_events, in insertion order
    clickhouse,            \* services['clickhouse'] is a service (TRUE) or None (FALSE)
    now,                   \* what datetime.utcnow() returns
    call,                  \* the translate coroutines: locals and position
    active_connections,    \* WebSocketManager.active_connections
    connection_metadata,   \* WebSocketManager.connection_metadata
    groups,                \* WebSocketManager.groups
    transcription_sessions,  \* WebSocketManager.transcription_sessions
    sock,                  \* each WebSocket: its transport's condition
    outbox,                \* each WebSocket: the frames sent on it, in order
    endpoint,              \* each websocket_endpoint coroutine: position, session_id
    connects,              \* number of connect calls made so far
    reply,                 \* what the latest maintenance call returned or raised
    synthesis              \* the synthesize_speech coroutines: locals and position

vars ==
    << translations, events, clickhouse, now, call, active_connections,
       connection_metadata, groups, transcription_sessions, sock, outbox,
       endpoint, connects, reply, synthesis >>

pipelineVars == << translations, events, call >>
managerVars ==
    << active_connections, connection_metadata, groups, transcription_sessions >>

\* a call made on its own: the operation, its argument, the exception it
\* raised ("" when it returned) and the value or HTTP status it returned
Reply(op, arg, raised, value) ==
    [op |-> op, arg |-> arg, raised |-> raised, value |-> value]
NoReply == Reply("", 0, "", 0)

----------------------------------------------------------------------------
(* services/websocket_manager.py *)

GroupNames == {"active_sessions", "listening", "processing"}

\* a JSON frame: its "type", the session it names, its status/info text, its
\* total_active count, and the translate call that sent it (0: the manager)
Msg(type, session, info, total, c) ==
    [type |-> type, session |-> session, info |-> info, total |-> total, call |-> c]

\* connection_metadata[session_id]; has = FALSE when the key is absent
Meta(connected_at, status, last_activity) ==
    [ has |-> TRUE, connected_at |-> connected_at, status |-> status,
      last_activity |-> last_activity ]
NoMeta == [has |-> FALSE, connected_at |-> 0, status |-> "", last_activity |-> 0]

\* the manager's fields and the sockets, as one value the methods map.
\* sock[w]: "new" before accept(), "open", or gone: the peer has left and
\* send_text raises WebSocketDisconnect ("gone_wsd") or another exception
\* ("gone_err")
Manager ==
    [ ac |-> active_connections, meta |-> connection_metadata,
      groups |-> groups, outbox |-> outbox, sock |-> sock ]

\* len(self.active_connections)
TotalActive(M) == Cardinality({s \in SessionIds : M.ac[s] # None})

\* the members of a set of session ids, in ascending order
RECURSIVE Ascending(_)
Ascending(S) ==
    IF S = {} THEN <<>>
    ELSE LET m == CHOOSE x \in S : \A y \in S : x <= y
         IN  <<m>> \o Ascending(S \ {m})

RECURSIVE SendPersonalMessage(_, _, _, _)
RECURSIVE BroadcastSeq(_, _, _, _)
RECURSIVE Disconnect(_, _, _)

\* WebSocketManager.broadcast_to_group over the copy `members` of the group.
\* send_personal_message catches every exception, so failed_sessions stays
\* empty and the clean-up loop does nothing.
BroadcastSeq(M, members, msg, t) ==
    IF members = <<>> THEN M
    ELSE BroadcastSeq(SendPersonalMessage(M, Head(members), msg, t),
                      Tail(members), msg, t)

BroadcastToGroup(M, group_name, msg, t) ==
    BroadcastSeq(M, Ascending(M.groups[group_name]), msg, t)

\* WebSocketManager.send_personal_message at time t
SendPersonalMessage(M, session_id, msg, t) ==
    IF M.ac[session_id] = None THEN M
    ELSE LET websocket == M.ac[session_id]
         IN  CASE M.sock[websocket] = "open" ->
                    [M EXCEPT
                       !.outbox[websocket] = Append(@, msg),
                       !.meta[session_id] =
                           IF @.has THEN [@ EXCEPT !.last_activity = t] ELSE @]
               [] M.sock[websocket] = "gone_wsd" -> Disconnect(M, session_id, t)
               [] OTHER -> M

\* WebSocketManager.disconnect at time t (the websocket argument is not used)
Disconnect(M, session_id, t) ==
    LET M1 == [M EXCEPT
                 !.groups = [g \in GroupNames |-> M.groups[g] \ {session_id}],
                 !.ac[session_id] = None,
                 !.meta[session_id] = NoMeta]
    IN  BroadcastToGroup(M1, "active_sessions",
            Msg("session_disconnected", session_id, "", TotalActive(M1), 0), t)

\* an attribute that __init__ does not create: reading it raises AttributeError
NoAttribute == "AttributeError"

\* a connect that does not add the session to active_sessions
ConnectRegistered_NoGroup(M, websocket, session_id, t) ==
    [M EXCEPT
       !.ac[session_id] = websocket,
       !.meta[session_id] = Meta(t, "connected", t)]

\* WebSocketManager.connect at time t, after websocket.accept() has returned
ConnectRegistered(M, websocket, session_id, t) ==
    [M EXCEPT
       !.ac[session_id] = websocket,
       !.meta[session_id] = Meta(t, "connected", t),
       !.groups["active_sessions"] = @ \cup {session_id}]

\* connect with the broadcast made before the welcome message
ConnectManager_BroadcastFirst(M, websocket, session_id, t) ==
    LET M1 == ConnectRegistered(M, websocket, session_id, t)
        M2 == BroadcastToGroup(M1, "active_sessions",
                  Msg("session_connected", session_id, "", TotalActive(M1), 0), t)
    IN  SendPersonalMessage(M2, session_id,
            Msg("connection_established", session_id, "", 0, 0), t)

ConnectManager(M, websocket, session_id, t) ==
    LET M1 == ConnectRegistered(M, websocket, session_id, t)
        M2 == SendPersonalMessage(M1, session_id,
                  Msg("connection_established", session_id, "", 0, 0), t)
    IN  BroadcastToGroup(M2, "active_sessions",
            Msg("session_connected", session_id, "", TotalActive(M2), 0), t)

\* `from datetime import datetime` binds the name datetime to the class, and
\* the class has no attribute timedelta: datetime.timedelta raises
DatetimeHasTimedelta == FALSE

\* disconnect called for each session of the list in turn
RECURSIVE DisconnectAll(_, _, _)
DisconnectAll(M, sessions, t) ==
    IF sessions = <<>> THEN M
    ELSE DisconnectAll(Disconnect(M, Head(sessions), t), Tail(sessions), t)

\* WebSocketManager.cleanup_inactive_connections(timeout_minutes) at time t:
\* the manager it leaves, with what it raised or returned
CleanupInactiveConnections(M, timeout_minutes, t) ==
    IF ~DatetimeHasTimedelta
    THEN [M |-> M, reply |-> Reply("cleanup", timeout_minutes, "AttributeError", 0)]
    ELSE LET inactive_sessions ==
                 {s \in SessionIds :
                    M.meta[s].has /\ t - M.meta[s].last_activity > timeout_minutes}
         IN  [ M |-> DisconnectAll(M, Ascending(inactive_sessions), t),
               reply |-> Reply("cleanup", timeout_minutes, "",
                               Cardinality(inactive_sessions)) ]

SetManager(M) ==
    /\ active_connections' = M.ac
    /\ connection_metadata' = M.meta
    /\ groups' = M.groups
    /\ outbox' = M.outbox
    /\ sock' = M.sock
    /\ UNCHANGED transcription_sessions

----------------------------------------------------------------------------
(* main.py: the /ws/{session_id} endpoint *)

\* a websocket_endpoint coroutine: where it stands, its session_id, the
\* number of messages its receive loop has taken and the kind of the last one
Endpoint(state, session_id) ==
    [state |-> state, session_id |-> session_id, received |-> 0, message |-> ""]

\* websocket_endpoint up to its first receive: WebSocketManager.connect
Connect(w, session_id) ==
    /\ endpoint[w].state = "new"
    /\ \A v \in Sockets : v < w => endpoint[v].state # "new"
    /\ endpoint' = [endpoint EXCEPT ![w] = Endpoint("receiving", session_id)]
    /\ SetManager(ConnectManager([Manager EXCEPT !.sock[w] = "open"],
                                 w, session_id, now))
    /\ now' = now + 1
    /\ connects' = connects + 1
    /\ UNCHANGED << pipelineVars, clickhouse, reply, synthesis >>

\* the client of socket w goes away; from now on a send on w raises
ClientLeaves(w) ==
    /\ sock[w] = "open"
    /\ \E kind \in {"gone_wsd", "gone_err"} : sock' = [sock EXCEPT ![w] = kind]
    /\ UNCHANGED << pipelineVars, clickhouse, reply, synthesis, now, managerVars, outbox,
                    endpoint, connects >>

\* websocket.receive_text() raises WebSocketDisconnect in the endpoint of w:
\* except WebSocketDisconnect: await services['websocket'].disconnect(...)
EndpointDisconnect(w) ==
    /\ endpoint[w].state = "receiving"
    /\ sock[w] \in {"gone_wsd", "gone_err"}
    /\ endpoint' = [endpoint EXCEPT ![w].state = "closed"]
    /\ SetManager(Disconnect(Manager, endpoint[w].session_id, now))
    /\ now' = now + 1
    /\ UNCHANGED << pipelineVars, clickhouse, reply, synthesis, connects >>

\* transcription_sessions[session_id]: the audio bytes buffered, the flag
TranscriptionSession(buffer, active) == [buffer |-> buffer, active |-> active]

\* The inbound text frames explored beside the well-formed translate message:
\*   not_json            json.loads raises
\*   no_type             a JSON object without "type"
\*   no_data             a recognised type without "data"
\*   unknown             a type that matches no branch
\*   start_transcription, audio_chunk (size: the decoded bytes of the chunk)
Message(kind, size) == [kind |-> kind, size |-> size]

Messages ==
    { Message(k, 0) : k \in {"not_json", "no_type", "no_data", "unknown",
                              "start_transcription"} }
       \cup { Message("audio_chunk", n) : n \in ChunkSizes }

\* process_streaming_transcription on an open socket: the frames it sends and
\* the manager attribute it leaves
ProcessStreamingTranscription(session_id) ==
    LET started == Msg("transcription_started", session_id, "", 0, 0)
    IN  IF transcription_sessions = NoAttribute
        THEN [ sent |-> << started,
                           Msg("error", session_id, "start_transcription", 0, 0) >>,
               sessions |-> transcription_sessions ]
        ELSE [ sent |-> << started >>,
               sessions |-> [transcription_sessions EXCEPT
                               ![session_id] = TranscriptionSession(0, TRUE)] ]

\* process_audio_chunk on an open socket; has_text: the transcription of the
\* flushed buffer has a text
ProcessAudioChunk(session_id, size, has_text) ==
    IF transcription_sessions = NoAttribute
    THEN [ sent |-> << Msg("error", session_id, "audio_chunk", 0, 0) >>,
           sessions |-> transcription_sessions ]
    ELSE LET session_info == transcription_sessions[session_id]
         IN  IF session_info = None \/ ~session_info.active
             THEN [sent |-> <<>>, sessions |-> transcription_sessions]
             ELSE IF session_info.buffer + size > BufferThreshold
             THEN [ sent |-> IF has_text
                             THEN << Msg("partial_transcription", session_id, "", 0, 0) >>
                             ELSE <<>>,
                    sessions |-> [transcription_sessions EXCEPT
                                    ![session_id].buffer = 0] ]
             ELSE [ sent |-> <<>>,
                    sessions |-> [transcription_sessions EXCEPT
                                    ![session_id].buffer = @ + size] ]

\* a receive loop that answers a type it does not know with an error frame
Dispatch_ErrorOnUnknown(session_id, m, has_text) ==
    CASE m.kind = "start_transcription" -> ProcessStreamingTranscription(session_id)
      [] m.kind = "audio_chunk" -> ProcessAudioChunk(session_id, m.size, has_text)
      [] OTHER -> [ sent |-> << Msg("error", session_id, "unknown", 0, 0) >>,
                    sessions |-> transcription_sessions ]

\* the if / elif chain of the receive loop on message['type']: what the task
\* it spawns does; a type that matches no branch spawns none
Dispatch(session_id, m, has_text) ==
    CASE m.kind = "start_transcription" -> ProcessStreamingTranscription(session_id)
      [] m.kind = "audio_chunk" -> ProcessAudioChunk(session_id, m.size, has_text)
      [] OTHER -> [sent |-> <<>>, sessions |-> transcription_sessions]

\* the receive loop of socket w takes a text frame other than a well-formed
\* translate.  A frame that makes json.loads, message['type'] or
\* message['data'] raise goes to `except Exception`: disconnect, and the
\* endpoint returns, on which the server closes the socket.  The task spawned
\* for start_transcription or audio_chunk runs to its end in the same step.
Receive(w, messages) ==
    /\ endpoint[w].state = "receiving"
    /\ sock[w] = "open"
    /\ endpoint[w].received < MaxMessages
    /\ \E m \in messages, has_text \in BOOLEAN :
         LET session_id == endpoint[w].session_id
             task == Dispatch(session_id, m, has_text)
         IN  IF m.kind \in {"not_json", "no_type", "no_data"}
             THEN /\ endpoint' = [endpoint EXCEPT ![w].state = "closed",
                                                  ![w].received = @ + 1,
                                                  ![w].message = m.kind]
                  /\ SetManager([Disconnect(Manager, session_id, now)
                                   EXCEPT !.sock[w] = "gone_err"])
                  /\ now' = now + 1
                  /\ UNCHANGED << pipelineVars, clickhouse, reply, synthesis, connects >>
             ELSE /\ endpoint' = [endpoint EXCEPT ![w].received = @ + 1,
                                                  ![w].message = m.kind]
                  /\ outbox' = [outbox EXCEPT ![w] = @ \o task.sent]
                  /\ transcription_sessions' = task.sessions
                  /\ UNCHANGED << pipelineVars, clickhouse, reply, synthesis, now,
                                  active_connections, connection_metadata,
                                  groups, sock, connects >>

\* cleanup_inactive_connections is called once, with one of the timeouts
CleanupInactive(timeout_minutes) ==
    /\ reply = NoReply
    /\ LET done == CleanupInactiveConnections(Manager, timeout_minutes, now)
       IN  /\ SetManager(done.M)
           /\ reply' = done.reply
    /\ now' = now + 1
    /\ UNCHANGED << pipelineVars, clickhouse, endpoint, connects, synthesis >>

----------------------------------------------------------------------------
(* services/mongodb_vector.py: store_translation *)

\* the metadata dict translate_technical_term passes to store_translation
Metadata(confidence, session_id, timestamp) ==
    [confidence |-> confidence, session_id |-> session_id, timestamp |-> timestamp]

\* a document of the collection; sessions is the array $addToSet builds (empty
\* while the field is absent)
Document(id, term, explanation, category, embedding, metadata, created_at, updated_at, sessions) ==
    [ id |-> id, term |-> term, explanation |-> explanation,
      category |-> category, embedding |-> embedding, metadata |-> metadata,
      created_at |-> created_at, updated_at |-> updated_at,
      sessions |-> sessions ]

\* index of the first document with {"term": term}, 0 when there is none
FirstWithTerm(coll, term) ==
    IF \E i \in DOMAIN coll : coll[i].term = term
    THEN CHOOSE i \in DOMAIN coll :
            /\ coll[i].term = term
            /\ \A j \in DOMAIN coll : coll[j].term = term => i <= j
    ELSE 0

\* find_one({"term": term}): the _id found, or None
FindOne(coll, term) ==
    IF FirstWithTerm(coll, term) = 0 THEN None
    ELSE coll[FirstWithTerm(coll, term)].id

\* update_one({"term": term}, {"$set": {...}, "$addToSet": {"sessions": ...}})
UpdateOne_KeepEmbedding(coll, term, explanation, category, embedding, updated_at, session_id) ==
    LET i == FirstWithTerm(coll, term)
    IN  IF i = 0 THEN coll
        ELSE [coll EXCEPT
                ![i].explanation = explanation,
                ![i].category = category,
                ![i].updated_at = updated_at,
                ![i].sessions = @ \cup {session_id}]

UpdateOne(coll, term, explanation, category, embedding, updated_at, session_id) ==
    LET i == FirstWithTerm(coll, term)
    IN  IF i = 0 THEN coll
        ELSE [coll EXCEPT
                ![i].explanation = explanation,
                ![i].category = category,
                ![i].embedding = embedding,
                ![i].updated_at = updated_at,
                ![i].sessions = @ \cup {session_id}]

\* insert_one(document): the document dict has no "sessions" key
InsertOne(coll, term, explanation, category, embedding, metadata, created_at) ==
    Append(coll, Document(Len(coll) + 1, term, explanation, category, embedding,
                          metadata, created_at, created_at, {}))

----------------------------------------------------------------------------
(* services/clickhouse_analytics.py: log_translation_event *)

Event(session_id, term, category, confidence, c) ==
    [ session_id |-> session_id, term |-> term, category |-> category,
      confidence |-> confidence, call |-> c ]

\* ClickHouseService.log_translation_event: the row is built, then inserted;
\* every exception is caught and logged.  event_data['user_agent'] is None
\* when the request gave none, and None.replace raises before the query is
\* sent.  query_ok: the INSERT succeeds.
LogTranslationEvent(table, event, user_agent_given, query_ok) ==
    IF user_agent_given /\ query_ok THEN Append(table, event) ELSE table

----------------------------------------------------------------------------
(* main.py: translate_technical_term and process_realtime_translation *)

\* web_results: None until the search is made, then a list of `count` results
WebResults(fetched, count) == [fetched |-> fetched, count |-> count]

\* what translate_technical_term gave its caller: status 200 with the
\* response, or HTTPException(500); status 0 while it runs
Result(status, body) == [status |-> status, body |-> body]

\* The requests explored: input_text, session_id (None: not given) and
\* whether user_agent is given.
Requests ==
    { [term |-> <<"a", "b">>, session_id |-> 1, user_agent |-> TRUE],
      [term |-> <<"a", "b">>, session_id |-> 2, user_agent |-> FALSE],
      [term |-> <<"A", "B">>, session_id |-> None, user_agent |-> TRUE],
      [term |-> <<"a", "b", " ", "c", "d">>, session_id |-> 1, user_agent |-> FALSE],
      [term |-> <<"a", " ", "b", " ", "c", " ", "d">>, session_id |-> 2,
       user_agent |-> TRUE],
      [term |-> <<"b", " ", "a", " ", "c">>, session_id |-> None,
       user_agent |-> FALSE] }

\* the requests explored together with every provider answer; the last has
\* the empty string as input_text
AnalysisRequests ==
    { [term |-> <<"a", "b">>, session_id |-> 1, user_agent |-> TRUE],
      [term |-> <<"A", "B">>, session_id |-> None, user_agent |-> FALSE],
      [term |-> <<>>, session_id |-> 2, user_agent |-> TRUE] }

\* the requests explored beside the translate messages
RealtimeRequests ==
    { [term |-> <<"a", "b">>, session_id |-> 2, user_agent |-> TRUE],
      [term |-> <<"a", "b">>, session_id |-> EmptySessionId, user_agent |-> TRUE] }

\* requests made one after another: a term, the same term in the other letter
\* case, a term that contains it, and a term that begins with "*" (as "*args"
\* does)
RoundTripRequests ==
    { [term |-> <<"a", "b">>, session_id |-> 1, user_agent |-> TRUE],
      [term |-> <<"A", "B">>, session_id |-> 2, user_agent |-> TRUE],
      [term |-> <<"a", "b", " ", "c", "d">>, session_id |-> 2, user_agent |-> TRUE],
      [term |-> <<"*", "a">>, session_id |-> 1, user_agent |-> TRUE] }

\* The locals of one translate coroutine, and what the model remembers of it:
\*   pc            the await it is suspended at
\*   chan          "http": POST /api/translate; "ws": a translate message;
\*                 "store": store_translation called on its own
\*   websocket     the socket of a "ws" call
\*   given         request.session_id as the caller built the request
\*   raw_kind, raw_fault   what the text model answered
\*   raw_confidence        the "confidence" of its answer
\*   emb_kind      what the embedding model answered ("": it was not called)
\*   web_calls     calls of tavily.search_technical_term made
\*   written       the embedding handed to insert_one / update_one
\*   store_failed  store_translation raised
\*   final         the last frame of a "ws" call, "crashed" if the send raised
\*   voice         of a "ws" call spawned for voice_input: "audio" when
\*                 data['audio_data'] is given, "text" when not; "" otherwise
\*   synthesize    data.get('synthesize_response') of a voice_input
IdleCall ==
    [ pc |-> "idle", chan |-> "", websocket |-> None, session_id |-> None,
      given |-> None, term |-> <<>>, user_agent |-> FALSE,
      vector_results |-> <<>>, web_results |-> WebResults(FALSE, 0),
      web_calls |-> 0, raw_kind |-> "", raw_fault |-> "",
      ai_analysis |-> NoAnalysis, response |-> NoResponse,
      metadata |-> Metadata(Absent(0), None, 0), created_at |-> 0,
      updated_at |-> 0, existing |-> None, wrote |-> "",
      written |-> Embedding(0, FALSE, 0), store_failed |-> FALSE,
      result |-> Result(0, NoResponse), final |-> "", voice |-> "",
      synthesize |-> FALSE, raw_confidence |-> Absent(0), emb_kind |-> "" ]

\* ConversationResponse.dict(): the Python type of each value
ResponseDict ==
    [ session_id |-> "str", term |-> "str", explanation |-> "str",
      category |-> "str", confidence |-> "float", business_impact |-> "str",
      related_terms |-> "list", sources |-> "list",
      processing_time |-> "float", timestamp |-> "datetime" ]

\* json.dumps(d) returns: every value is of a type the default encoder knows
JsonDumpsAccepts(d) ==
    \A f \in DOMAIN d : d[f] \in {"str", "int", "float", "bool", "NoneType", "list"}

\* process_realtime_translation sending translation_complete and then, from
\* the except branch, error as well
Conclude_CompleteThenError(c, rec, result) ==
    LET r == [rec EXCEPT !.pc = "done", !.result = result, !.final = "error"]
    IN  /\ call' = [call EXCEPT ![c] = r]
        /\ outbox' = IF r.chan = "ws" /\ sock[r.websocket] = "open"
                     THEN [outbox EXCEPT ![r.websocket] =
                             @ \o << Msg("translation_complete", r.session_id, "", 0, c),
                                     Msg("error", r.session_id, "", 0, c) >>]
                     ELSE outbox

\* translate_technical_term ends with `result`.  For POST /api/translate that
\* is the answer.  For a translate message, process_realtime_translation goes
\* on in the same step: json.dumps + send_text of translation_complete, or the
\* except branch's send_text of error; a send_text that raises in the except
\* branch ends the task with the exception.  process_voice_input, when it
\* made the call, then sends status(synthesizing) if asked to.
Conclude(c, rec, result) ==
    LET r == [rec EXCEPT !.pc = "done", !.result = result]
        frame == IF result.status = 200 /\ JsonDumpsAccepts(ResponseDict)
                 THEN "translation_complete" ELSE "error"
        after == IF r.voice # "" /\ r.synthesize
                 THEN << Msg("status", r.session_id, "synthesizing", 0, c) >>
                 ELSE <<>>
    IN  IF r.chan # "ws"
        THEN /\ call' = [call EXCEPT ![c] = r]
             /\ UNCHANGED outbox
        ELSE IF sock[r.websocket] = "open"
        THEN /\ call' = [call EXCEPT ![c] = [r EXCEPT !.final = frame]]
             /\ outbox' = [outbox EXCEPT ![r.websocket] =
                              Append(@, Msg(frame, r.session_id, "", 0, c)) \o after]
        ELSE /\ call' = [call EXCEPT ![c] = [r EXCEPT !.final = "crashed"]]
             /\ UNCHANGED outbox

\* except Exception as e: raise HTTPException(status_code=500, ...)
Fail_ReturnsResponse(c, rec) == Conclude(c, rec, Result(200, rec.response))

Fail(c, rec) == Conclude(c, rec, Result(500, NoResponse))

\* calls are started in the order of their numbers
NextCall(c) ==
    /\ call[c].pc = "idle"
    /\ \A d \in Calls : d < c => call[d].pc # "idle"

\* no translate call and no store_translation call is under way
NoCallRunning == \A d \in Calls : call[d].pc \in {"idle", "done"}

\* POST /api/translate arrives: session_id = request.session_id or uuid4(),
\* then the await of search_similar_terms
StartHttp(c, requests) ==
    /\ NextCall(c)
    /\ \E req \in requests :
         call' = [call EXCEPT ![c] =
                    [IdleCall EXCEPT
                       !.pc = "search", !.chan = "http",
                       !.term = req.term, !.user_agent = req.user_agent,
                       !.given = req.session_id,
                       !.session_id = ResolveSessionId(req.session_id, c)]]
    /\ UNCHANGED << translations, events, clickhouse, reply, synthesis, now, managerVars, sock,
                    outbox, endpoint, connects >>

\* a receive loop that awaits the task: no message is taken while a call runs
DispatchTranslate_Blocking(c, w, terms) ==
    /\ NoCallRunning
    /\ NextCall(c)
    /\ endpoint[w].state = "receiving"
    /\ sock[w] = "open"
    /\ \E term \in terms :
         call' = [call EXCEPT ![c] =
                    [IdleCall EXCEPT
                       !.pc = "ws_status", !.chan = "ws", !.websocket = w,
                       !.term = term, !.given = endpoint[w].session_id,
                       !.session_id = ResolveSessionId(endpoint[w].session_id, c)]]
    /\ endpoint' = [endpoint EXCEPT ![w].received = @ + 1,
                                    ![w].message = "translate"]
    /\ UNCHANGED << translations, events, clickhouse, reply, synthesis, now, managerVars, sock,
                    outbox, connects >>

\* the receive loop of socket w gets {"type": "translate", "data": {"text": ...}}:
\* asyncio.create_task(process_realtime_translation(websocket, session_id, data))
DispatchTranslate(c, w, terms) ==
    /\ NextCall(c)
    /\ endpoint[w].state = "receiving"
    /\ sock[w] = "open"
    /\ \E term \in terms :
         call' = [call EXCEPT ![c] =
                    [IdleCall EXCEPT
                       !.pc = "ws_status", !.chan = "ws", !.websocket = w,
                       !.term = term, !.given = endpoint[w].session_id,
                       !.session_id = ResolveSessionId(endpoint[w].session_id, c)]]
    /\ endpoint' = [endpoint EXCEPT ![w].received = @ + 1,
                                    ![w].message = "translate"]
    /\ UNCHANGED << translations, events, clickhouse, reply, synthesis, now, managerVars, sock,
                    outbox, connects >>

\* what services['stt'].transcribe_audio_stream makes of the audio
TranscribedText == <<"a", "b", " ", "c", "d">>

\* the receive loop of socket w gets {"type": "voice_input", "data": {...}}:
\* asyncio.create_task(process_voice_input(websocket, session_id, data)).
\* data has audio_data (and then no text), or a text.
DispatchVoice(c, w, terms) ==
    /\ NextCall(c)
    /\ endpoint[w].state = "receiving"
    /\ sock[w] = "open"
    /\ \E term \in terms, audio \in BOOLEAN, synthesize \in BOOLEAN :
         call' = [call EXCEPT ![c] =
                    [IdleCall EXCEPT
                       !.pc = "voice_status", !.chan = "ws", !.websocket = w,
                       !.voice = IF audio THEN "audio" ELSE "text",
                       !.synthesize = synthesize,
                       !.term = IF audio THEN <<>> ELSE term,
                       !.given = endpoint[w].session_id,
                       !.session_id = ResolveSessionId(endpoint[w].session_id, c)]]
    /\ endpoint' = [endpoint EXCEPT ![w].received = @ + 1,
                                    ![w].message = "voice_input"]
    /\ UNCHANGED << translations, events, clickhouse, reply, synthesis, now, managerVars, sock,
                    outbox, connects >>

\* a send_text of process_voice_input by call c: the frame goes out and the
\* task moves to pc, or the send raises, the except branch's send raises too
\* and the task ends
VoiceSend(c, rec, type, info, pc) ==
    IF sock[rec.websocket] = "open"
    THEN /\ outbox' = [outbox EXCEPT ![rec.websocket] =
                          Append(@, Msg(type, rec.session_id, info, 0, c))]
         /\ call' = [call EXCEPT ![c] =
                        [rec EXCEPT !.pc = pc,
                                    !.final = IF pc = "done" THEN type ELSE @]]
    ELSE /\ call' = [call EXCEPT ![c] = [rec EXCEPT !.pc = "done",
                                                    !.final = "crashed"]]
         /\ UNCHANGED outbox

\* process_voice_input starts: send_text of status(processing_voice), then
\* the await of the transcription, or of process_realtime_translation
VoiceStatus(c) ==
    /\ call[c].pc = "voice_status"
    /\ VoiceSend(c, call[c], "status", "processing_voice",
                 IF call[c].voice = "audio" THEN "transcribe" ELSE "ws_status")
    /\ UNCHANGED << translations, events, clickhouse, reply, synthesis, now, managerVars, sock,
                    endpoint, connects >>

\* a process_voice_input that reports the failed transcription and goes on
Transcribe_ContinuesOnError(c) ==
    /\ call[c].pc = "transcribe"
    /\ \E failed \in BOOLEAN :
         IF failed
         THEN VoiceSend(c, call[c], "error", "transcription", "ws_status")
         ELSE VoiceSend(c, [call[c] EXCEPT !.term = TranscribedText],
                        "transcription_complete", "", "ws_status")
    /\ UNCHANGED << translations, events, clickhouse, reply, synthesis, now, managerVars, sock,
                    endpoint, connects >>

\* transcribe_audio_stream answers: with an error (send error, return), or
\* with a text that becomes data['text'] (send transcription_complete)
Transcribe(c) ==
    /\ call[c].pc = "transcribe"
    /\ \E failed \in BOOLEAN :
         IF failed
         THEN VoiceSend(c, call[c], "error", "transcription", "done")
         ELSE VoiceSend(c, [call[c] EXCEPT !.term = TranscribedText],
                        "transcription_complete", "", "ws_status")
    /\ UNCHANGED << translations, events, clickhouse, reply, synthesis, now, managerVars, sock,
                    endpoint, connects >>

\* a task that starts only when the earlier tasks of its socket have ended
SendStatus_AfterEarlier(c) ==
    /\ call[c].pc = "ws_status"
    /\ \A d \in Calls :
         (d < c /\ call[d].websocket = call[c].websocket) => call[d].pc = "done"
    /\ IF sock[call[c].websocket] = "open"
       THEN /\ outbox' = [outbox EXCEPT ![call[c].websocket] =
                  Append(@, Msg("status", call[c].session_id, "processing", 0, c))]
            /\ call' = [call EXCEPT ![c].pc = "search"]
       ELSE /\ call' = [call EXCEPT ![c].pc = "done", ![c].final = "crashed"]
            /\ UNCHANGED outbox
    /\ UNCHANGED << translations, events, clickhouse, reply, synthesis, now, managerVars, sock,
                    endpoint, connects >>

\* process_realtime_translation starts: send_text of status(processing), then
\* translate_technical_term up to the await of search_similar_terms.  A
\* send_text that raises goes to the except branch, whose send_text raises too.
SendStatus(c) ==
    /\ call[c].pc = "ws_status"
    /\ IF sock[call[c].websocket] = "open"
       THEN /\ outbox' = [outbox EXCEPT ![call[c].websocket] =
                  Append(@, Msg("status", call[c].session_id, "processing", 0, c))]
            /\ call' = [call EXCEPT ![c].pc = "search"]
       ELSE /\ call' = [call EXCEPT ![c].pc = "done", ![c].final = "crashed"]
            /\ UNCHANGED outbox
    /\ UNCHANGED << translations, events, clickhouse, reply, synthesis, now, managerVars, sock,
                    endpoint, connects >>

\* after the knowledge lookup: the gate, then the await of the web search or
\* of the analysis
AfterLookup(rec, vector_results) ==
    [rec EXCEPT
       !.vector_results = vector_results,
       !.pc = IF NeedsWebSearch(vector_results) THEN "web" ELSE "analyze"]

\* the first query of search_similar_terms answers (or raises, as it always
\* does for a pattern the server rejects: return [])
SearchExact(c) ==
    /\ call[c].pc = "search"
    /\ \E raises \in BOOLEAN :
         LET found == ExactMatches(translations, call[c].term, SearchLimit)
         IN  call' = [call EXCEPT ![c] =
                 IF raises \/ ~RegexCompiles(call[c].term) THEN AfterLookup(@, <<>>)
                 ELSE IF found # <<>> THEN AfterLookup(@, found)
                 ELSE [@ EXCEPT !.pc = "search_text"]]
    /\ UNCHANGED << translations, events, clickhouse, reply, synthesis, now, managerVars, sock,
                    outbox, endpoint, connects >>

\* the second query of search_similar_terms answers (or raises: return [])
SearchText(c) ==
    /\ call[c].pc = "search_text"
    /\ \E raises \in BOOLEAN, hits \in SUBSET (DOMAIN translations) :
         call' = [call EXCEPT ![c] =
             IF raises THEN AfterLookup(@, <<>>)
             ELSE AfterLookup(@, TextMatches(translations, call[c].term,
                                             SearchLimit, SearchThreshold, hits))]
    /\ UNCHANGED << translations, events, clickhouse, reply, synthesis, now, managerVars, sock,
                    outbox, endpoint, connects >>

\* tavily.search_technical_term answers: a list, empty on any failure
WebSearch(c) ==
    /\ call[c].pc = "web"
    /\ \E count \in {0, 2} :
         call' = [call EXCEPT
                    ![c].web_results = WebResults(TRUE, count),
                    ![c].web_calls = @ + 1,
                    ![c].pc = "analyze"]
    /\ UNCHANGED << translations, events, clickhouse, reply, synthesis, now, managerVars, sock,
                    outbox, endpoint, connects >>


\* bedrock answers (text model, then embedding model; raws and embs are the
\* answers explored):
\* analyze_technical_term returns, the ConversationResponse is built, and
\* store_translation builds its document and awaits find_one
Analyze(c, raws, embs) ==
    /\ call[c].pc = "analyze"
    /\ \E raw \in raws, emb \in embs :
         LET ai == AnalyzeTechnicalTerm(c, call[c].vector_results,
                                        call[c].web_results, raw, emb)
             rec == [call[c] EXCEPT
                       !.raw_kind = raw.kind, !.raw_fault = raw.fault,
                       !.raw_confidence = raw.confidence,
                       !.emb_kind = IF raw.kind = "raise" THEN "" ELSE emb,
                       !.ai_analysis = ai]
         IN  IF ResponseValid(ai)
             THEN /\ call' = [call EXCEPT ![c] =
                        [rec EXCEPT
                           !.response = Response(rec.session_id, rec.term, ai),
                           !.metadata = Metadata(ai.confidence, rec.session_id, now),
                           !.created_at = now,
                           !.pc = "store_find"]]
                  /\ UNCHANGED outbox
             ELSE Fail(c, rec)
    /\ now' = now + 1
    /\ UNCHANGED << translations, events, clickhouse, reply, synthesis, managerVars, sock,
                    endpoint, connects >>

\* store_translation(term, explanation, category, embedding, metadata) is
\* called on its own, for call c, with a full embedding or an empty one: the
\* document is built and find_one awaited
StartStore(c, terms, sessions) ==
    /\ NextCall(c)
    /\ NoCallRunning
    /\ \E term \in terms, session_id \in sessions, emb \in {"vector", "no_field"} :
         LET ai == [RawObject(c, 95) EXCEPT !.kind = "", !.fault = ""]
         IN  call' = [call EXCEPT ![c] =
                [IdleCall EXCEPT
                   !.pc = "store_find", !.chan = "store", !.term = term,
                   !.session_id = session_id,
                   !.ai_analysis.embedding = GenerateEmbedding(emb, c),
                   !.response.explanation = ai.explanation,
                   !.response.category = ai.category,
                   !.metadata = Metadata(ai.confidence, session_id, now),
                   !.created_at = now]]
    /\ now' = now + 1
    /\ UNCHANGED << translations, events, clickhouse, reply, synthesis, managerVars, sock, outbox,
                    endpoint, connects >>

\* find_one answers (or raises); with a document found, update_one is built
\* (its updated_at read now) and awaited, else insert_one is awaited
StoreFind(c) ==
    /\ call[c].pc = "store_find"
    /\ \E raises \in BOOLEAN :
         IF raises
         THEN Fail(c, [call[c] EXCEPT !.store_failed = TRUE])
         ELSE /\ call' = [call EXCEPT
                            ![c].existing = FindOne(translations, call[c].term),
                            ![c].updated_at = now,
                            ![c].pc = "store_write"]
              /\ UNCHANGED outbox
    /\ now' = now + 1
    /\ UNCHANGED << translations, events, clickhouse, reply, synthesis, managerVars, sock,
                    endpoint, connects >>

\* update_one / insert_one answers (or raises); store_translation returns and
\* translate goes on to the analytics step, or returns when there is no
\* ClickHouse service
StoreWrite(c) ==
    /\ call[c].pc = "store_write"
    /\ \E raises \in BOOLEAN :
         IF raises
         THEN /\ Fail(c, [call[c] EXCEPT !.store_failed = TRUE])
              /\ UNCHANGED translations
         ELSE LET r == call[c]
                  rec == [r EXCEPT
                            !.wrote = IF r.existing # None THEN "update" ELSE "insert",
                            !.written = r.ai_analysis.embedding]
              IN  /\ translations' =
                        IF r.existing # None
                        THEN UpdateOne(translations, r.term, r.response.explanation,
                                       r.response.category, r.ai_analysis.embedding,
                                       r.updated_at, r.metadata.session_id)
                        ELSE InsertOne(translations, r.term, r.response.explanation,
                                       r.response.category, r.ai_analysis.embedding,
                                       r.metadata, r.created_at)
                  /\ IF clickhouse /\ r.chan # "store"
                     THEN /\ call' = [call EXCEPT ![c] = [rec EXCEPT !.pc = "log"]]
                          /\ UNCHANGED outbox
                     ELSE Conclude(c, rec, Result(200, rec.response))
    /\ UNCHANGED << events, clickhouse, reply, synthesis, now, managerVars, sock, endpoint, connects >>

\* the event the analytics step hands to log_translation_event
TranslationEvent(c, rec) ==
    Event(rec.session_id, rec.term, rec.response.category,
          rec.response.confidence, c)

\* log_translation_event returns (it never raises); translate returns the response
LogAndReturn_Propagates(c, rec, query_ok) ==
    /\ events' = LogTranslationEvent(events, TranslationEvent(c, rec),
                                     rec.user_agent, query_ok)
    /\ IF rec.user_agent /\ query_ok
       THEN Conclude(c, rec, Result(200, rec.response))
       ELSE Fail(c, rec)

LogAndReturn(c, rec, query_ok) ==
    /\ events' = LogTranslationEvent(events, TranslationEvent(c, rec),
                                     rec.user_agent, query_ok)
    /\ Conclude(c, rec, Result(200, rec.response))

LogAnalytics(c) ==
    /\ call[c].pc = "log"
    /\ \E query_ok \in BOOLEAN : LogAndReturn(c, call[c], query_ok)
    /\ UNCHANGED << translations, clickhouse, reply, synthesis, now, managerVars, sock, endpoint,
                    connects >>

----------------------------------------------------------------------------
(* main.py: POST /api/voice/synthesize *)

\* the api_key of services['rime']: unset, the placeholder of the sample
\* environment file, or a key
ApiKeys == {"", "your_rime_api_key_here", "key"}
\* request.get('text'): None when the key is absent, else the string sent
Texts == {"None", "", "text"}
\* what audio_stream yields: bytes that begin a WAV file, other bytes, b""
Chunks == { <<"RIFF">>, <<"ID3">>, <<>> }

\* `not services.get('rime') or not api_key or api_key == "your_rime_api_key_here"`
VoiceUnconfigured(api_key) == api_key \in {"", "your_rime_api_key_here"}
\* `not text`
TextMissing(text) == text \in {"None", ""}

\* the status raised before the stream is read (0: nothing raised)
SynthesizeChecks(api_key, text) ==
    IF VoiceUnconfigured(api_key) THEN 503
    ELSE IF TextMissing(text) THEN 400
    ELSE 0

\* `except Exception as e: raise HTTPException(status_code=500, ...)` around
\* the whole body: HTTPException is an Exception, so every status raised in
\* the body leaves the handler as 500
ExceptException(status) == 500

\* the end of the stream: 500 raised in the body when audio_data is empty,
\* else the Response with its media type
SynthesizeReturn(audio_data) ==
    IF audio_data = <<>>
    THEN [status |-> ExceptException(500), media_type |-> ""]
    ELSE [status |-> 200,
          media_type |-> IF Head(audio_data) = "RIFF" THEN "audio/wav" ELSE "audio/mpeg"]

SynthesisCalls == 1..MaxSynthesisCalls

\* The locals of one synthesize_speech coroutine: pc is "idle", "stream" (at
\* the `async for`) or "done"; status is what the client got
IdleSynthesis ==
    [ pc |-> "idle", api_key |-> "", text |-> "None", audio_data |-> <<>>,
      status |-> 0, media_type |-> "" ]

\* a request arrives: the two checks, then the first await of the stream
StartSynthesize(k) ==
    /\ synthesis[k].pc = "idle"
    /\ \E api_key \in ApiKeys, text \in Texts :
         LET raised == SynthesizeChecks(api_key, text)
             rec == [IdleSynthesis EXCEPT !.api_key = api_key, !.text = text]
         IN  synthesis' = [synthesis EXCEPT ![k] =
                IF raised # 0
                THEN [rec EXCEPT !.pc = "done", !.status = ExceptException(raised)]
                ELSE [rec EXCEPT !.pc = "stream"]]
    /\ UNCHANGED << pipelineVars, clickhouse, reply, now, managerVars, sock, outbox,
                    endpoint, connects >>

\* the stream yields a chunk: audio_data += chunk
StreamChunk(k) ==
    /\ synthesis[k].pc = "stream"
    /\ \E chunk \in Chunks :
         /\ Len(synthesis[k].audio_data) + Len(chunk) <= MaxChunks
         /\ synthesis' = [synthesis EXCEPT ![k].audio_data = @ \o chunk]
    /\ UNCHANGED << pipelineVars, clickhouse, reply, now, managerVars, sock, outbox,
                    endpoint, connects >>

\* the stream raises, or ends and the handler returns
StreamEnds(k) ==
    /\ synthesis[k].pc = "stream"
    /\ \E raises \in BOOLEAN :
         LET out == IF raises THEN [status |-> ExceptException(0), media_type |-> ""]
                    ELSE SynthesizeReturn(synthesis[k].audio_data)
         IN  synthesis' = [synthesis EXCEPT ![k].pc = "done",
                                            ![k].status = out.status,
                                            ![k].media_type = out.media_type]
    /\ UNCHANGED << pipelineVars, clickhouse, reply, now, managerVars, sock, outbox,
                    endpoint, connects >>

----------------------------------------------------------------------------
(* Specifications *)

NoSessions == [g \in GroupNames |-> {}]

\* lifespan() has run: the collection and the table are as the deployment
\* starts them (empty), ClickHouse initialised or not
Init ==
    /\ translations = <<>>
    /\ events = <<>>
    /\ clickhouse \in BOOLEAN
    /\ now = 1
    /\ call = [c \in Calls |-> IdleCall]
    /\ active_connections = [s \in SessionIds |-> None]
    /\ connection_metadata = [s \in SessionIds |-> NoMeta]
    /\ groups = NoSessions
    /\ transcription_sessions = NoAttribute
    /\ sock = [w \in Sockets |-> "new"]
    /\ outbox = [w \in Sockets |-> <<>>]
    /\ endpoint = [w \in Sockets |-> Endpoint("new", None)]
    /\ connects = 0
    /\ reply = NoReply
    /\ synthesis = [k \in SynthesisCalls |-> IdleSynthesis]

\* POST /api/translate under concurrent requests
Next ==
    \/ \E c \in 1..MaxCalls : NextCall(c) /\ StartHttp(c, Requests)
    \/ \E c \in Calls : SearchExact(c)
    \/ \E c \in Calls : SearchText(c)
    \/ \E c \in Calls : WebSearch(c)
    \/ \E c \in Calls :
          call[c].pc = "analyze" /\ Analyze(c, BasicOutputs(c), {"vector"})
    \/ \E c \in Calls : StoreFind(c)
    \/ \E c \in Calls : StoreWrite(c)
    \/ \E c \in Calls : LogAnalytics(c)

Spec == Init /\ [][Next]_vars

\* POST /api/translate, one request after another, with every answer of the
\* analysis provider
NextAnalysis ==
    \/ \E c \in 1..MaxAnalysisCalls :
          NoCallRunning /\ StartHttp(c, AnalysisRequests)
    \/ \E c \in Calls : SearchExact(c)
    \/ \E c \in Calls : SearchText(c)
    \/ \E c \in Calls : WebSearch(c)
    \/ \E c \in Calls :
          call[c].pc = "analyze" /\ Analyze(c, RawOutputs(c), EmbeddingOutcomes)
    \/ \E c \in Calls : StoreFind(c)
    \/ \E c \in Calls : StoreWrite(c)
    \/ \E c \in Calls : LogAnalytics(c)

SpecAnalysis == Init /\ [][NextAnalysis]_vars

\* translate over both channels, one request after another: POST
\* /api/translate and translate messages on connected sockets, whose clients
\* may leave at any time
NextRealtime ==
    \/ \E c \in 1..MaxRealtimeCalls :
          NoCallRunning /\ StartHttp(c, RealtimeRequests)
    \/ \E c \in 1..MaxRealtimeCalls, w \in Sockets :
          NoCallRunning /\ DispatchTranslate(c, w, {<<"a", "b">>})
    \/ \E c \in Calls : SendStatus(c)
    \/ \E c \in Calls : SearchExact(c)
    \/ \E c \in Calls : SearchText(c)
    \/ \E c \in Calls : WebSearch(c)
    \/ \E c \in Calls :
          call[c].pc = "analyze" /\ Analyze(c, BasicOutputs(c), {"vector"})
    \/ \E c \in Calls : StoreFind(c)
    \/ \E c \in Calls : StoreWrite(c)
    \/ \E c \in Calls : LogAnalytics(c)
    \/ \E w \in Sockets, s \in SessionIds :
          connects < MaxPipelineSockets /\ Connect(w, s)
    \/ \E w \in Sockets : ClientLeaves(w)
    \/ \E w \in Sockets : EndpointDisconnect(w)

SpecRealtime == Init /\ [][NextRealtime]_vars

\* store_translation called again and again, each call after the one before
\* has returned or raised
NextStore ==
    \/ \E c \in 1..MaxStoreCalls :
          NextCall(c) /\ StartStore(c, {<<"a", "b">>, <<"A", "B">>}, SessionIds)
    \/ \E c \in Calls : StoreFind(c)
    \/ \E c \in Calls : StoreWrite(c)

SpecStore == Init /\ [][NextStore]_vars

\* the session manager: sockets connect under any session id, their clients
\* leave, and their endpoints notice
NextSessions ==
    \/ \E w \in Sockets, s \in SessionIds : connects < MaxConnects /\ Connect(w, s)
    \/ \E w \in Sockets : ClientLeaves(w)
    \/ \E w \in Sockets : EndpointDisconnect(w)
    \/ \E timeout_minutes \in Timeouts : CleanupInactive(timeout_minutes)

SpecSessions == Init /\ [][NextSessions]_vars

\* translate messages on several sockets, each socket under its own session
\* id, their tasks interleaved at every await
NextDispatch ==
    \/ \E w \in SessionIds : connects < MaxDispatchSockets /\ Connect(w, w)
    \/ \E c \in 1..MaxDispatchCalls, w \in Sockets :
          NextCall(c) /\ DispatchTranslate(c, w, {<<"a", "b">>})
    \/ \E c \in Calls : SendStatus(c)
    \/ \E c \in Calls : SearchExact(c)
    \/ \E c \in Calls : SearchText(c)
    \/ \E c \in Calls : WebSearch(c)
    \/ \E c \in Calls :
          call[c].pc = "analyze" /\ Analyze(c, BasicOutputs(c), {"vector"})
    \/ \E c \in Calls : StoreFind(c)
    \/ \E c \in Calls : StoreWrite(c)
    \/ \E c \in Calls : LogAnalytics(c)

SpecDispatch == Init /\ [][NextDispatch]_vars

\* voice_input messages on a connected socket, one after another
NextVoice ==
    \/ \E w \in SessionIds : connects < MaxVoiceSockets /\ Connect(w, w)
    \/ \E c \in 1..MaxVoiceCalls, w \in Sockets :
          NoCallRunning /\ DispatchVoice(c, w, {<<"a", "b">>})
    \/ \E c \in Calls : VoiceStatus(c)
    \/ \E c \in Calls : Transcribe(c)
    \/ \E c \in Calls : SendStatus(c)
    \/ \E c \in Calls : SearchExact(c)
    \/ \E c \in Calls : SearchText(c)
    \/ \E c \in Calls : WebSearch(c)
    \/ \E c \in Calls :
          call[c].pc = "analyze" /\ Analyze(c, BasicOutputs(c), {"vector"})
    \/ \E c \in Calls : StoreFind(c)
    \/ \E c \in Calls : StoreWrite(c)
    \/ \E c \in Calls : LogAnalytics(c)
    \/ \E w \in Sockets : ClientLeaves(w)
    \/ \E w \in Sockets : EndpointDisconnect(w)

SpecVoice == Init /\ [][NextVoice]_vars

\* POST /api/translate, each request after the one before has been answered
NextRoundTrip ==
    \/ \E c \in 1..MaxRoundTripCalls :
          NoCallRunning /\ StartHttp(c, RoundTripRequests)
    \/ \E c \in Calls : SearchExact(c)
    \/ \E c \in Calls : SearchText(c)
    \/ \E c \in Calls : WebSearch(c)
    \/ \E c \in Calls :
          call[c].pc = "analyze" /\ Analyze(c, BasicOutputs(c), {"vector"})
    \/ \E c \in Calls : StoreFind(c)
    \/ \E c \in Calls : StoreWrite(c)
    \/ \E c \in Calls : LogAnalytics(c)

SpecRoundTrip == Init /\ [][NextRoundTrip]_vars

\* POST /api/voice/synthesize under concurrent requests
NextSynthesize ==
    \/ \E k \in SynthesisCalls : StartSynthesize(k)
    \/ \E k \in SynthesisCalls : StreamChunk(k)
    \/ \E k \in SynthesisCalls : StreamEnds(k)

SpecSynthesize == Init /\ [][NextSynthesize]_vars

\* text frames of every kind on connected sockets, each socket under its own
\* session id, while clients leave
NextMessages ==
    \/ \E w \in SessionIds : connects < MaxMessageSockets /\ Connect(w, w)
    \/ \E w \in Sockets : endpoint[w].state = "receiving" /\ Receive(w, Messages)
    \/ \E w \in Sockets : ClientLeaves(w)
    \/ \E w \in Sockets : EndpointDisconnect(w)

SpecMessages == Init /\ [][NextMessages]_vars

----------------------------------------------------------------------------
(* Properties *)

\* a translate call that has passed the fallback gate
PastGate(c) ==
    /\ call[c].chan \in {"http", "ws"}
    /\ call[c].pc \notin {"idle", "ws_status", "search", "search_text", "web"}

\* C1: within one translate call the web search is invoked if and only if the
\* knowledge lookup returned nothing or its top score is below 0.8 (a top
\* score of exactly 0.8 does not invoke it), and when invoked it is invoked
\* exactly once.
C1_WebSearchGate ==
    \A c \in Calls :
       /\ call[c].web_calls <= 1
       /\ call[c].pc = "web" =>
             /\ call[c].web_calls = 0
             /\ \/ call[c].vector_results = <<>>
                \/ ScoreLess(call[c].vector_results[1].score, Score(8, 10))
       /\ PastGate(c) =>
             (call[c].web_calls = 1 <=>
                \/ call[c].vector_results = <<>>
                \/ ScoreLess(call[c].vector_results[1].score, Score(8, 10)))

\* one call found nothing and returned after one web search; a later call
\* whose lookup's top score is exactly 0.8 returned without any
C1_Witness ==
    \E c, d \in Calls :
       /\ call[c].pc = "done" /\ call[c].result.status = 200
       /\ call[c].vector_results # <<>>
       /\ call[c].vector_results[1].score = Score(8, 10)
       /\ call[c].web_calls = 0
       /\ call[d].pc = "done" /\ call[d].result.status = 200
       /\ call[d].vector_results = <<>>
       /\ call[d].web_calls = 1

\* translate call c has its analysis and has not failed in store_translation
Analysed(c) ==
    /\ call[c].chan \in {"http", "ws"}
    /\ call[c].pc \in {"store_find", "store_write", "log", "done"}
    /\ call[c].raw_kind # ""
    /\ ~call[c].store_failed

\* the analysis dict is the degraded one of _fallback_analysis
IsDegraded(ai) ==
    /\ ai.category.t = "str" /\ ai.category.s = "Technology"
    /\ ai.confidence.t = "num" /\ ai.confidence.n = 50
    /\ ai.related_terms.t = "list_empty"
    /\ ai.sources = <<"fallback">>

\* C2: when the analysis provider raises, the translate call still returns a
\* successful response, with category "Technology", confidence 0.5, no related
\* terms and sources ["fallback"], and the embedding it persists has length
\* 1024 with every component 0.0.
C2_ProviderOutageDegrades ==
    \A c \in Calls :
       (Analysed(c) /\ call[c].raw_kind = "raise") =>
          /\ IsDegraded(call[c].ai_analysis)
          /\ call[c].ai_analysis.embedding.len = 1024
          /\ call[c].ai_analysis.embedding.zero
          /\ call[c].pc = "done" =>
                /\ call[c].result.status = 200
                /\ IsDegraded(call[c].result.body)
                /\ call[c].wrote \in {"insert", "update"}
                /\ call[c].written.len = 1024 /\ call[c].written.zero
          /\ \A i \in DOMAIN translations :
                translations[i].embedding.by = c =>
                   /\ translations[i].embedding.len = 1024
                   /\ translations[i].embedding.zero

\* a call whose provider raised has returned 200 and its zero vector is in
\* the collection
C2_Witness ==
    \E c \in Calls :
       /\ call[c].raw_kind = "raise" /\ call[c].pc = "done"
       /\ call[c].result.status = 200
       /\ \E i \in DOMAIN translations :
             translations[i].embedding = Embedding(1024, TRUE, c)

\* C3: whatever the analysis provider returns (no JSON, invalid JSON, a
\* missing field, a malformed value), the translate call does not fail: a
\* call that store_translation did not fail returns a response.
C3_NoProviderOutputFails ==
    \A c \in Calls :
       (call[c].pc = "done" /\ call[c].raw_kind # "" /\ ~call[c].store_failed)
          => call[c].result.status = 200

\* C4: model output that is JSON lacking a required field (explanation,
\* category, confidence, business_impact) is replaced by the degraded
\* analysis, and the call does not fail on it.
C4_MissingFieldDegrades ==
    \A c \in Calls :
       (Analysed(c) /\ call[c].raw_fault = "missing_field") =>
          /\ IsDegraded(call[c].ai_analysis)
          /\ call[c].pc = "done" =>
                /\ call[c].result.status = 200
                /\ IsDegraded(call[c].result.body)

\* a call whose provider left out a required field has returned 200
C4_Witness ==
    \E c \in Calls :
       /\ call[c].raw_fault = "missing_field" /\ call[c].pc = "done"
       /\ call[c].result.status = 200
       /\ call[c].result.body.sources = <<"fallback">>

\* C5: when store_translation fails within a translate call, the caller gets
\* an operation failure (HTTP 500; on the real-time channel an error frame
\* and no translation_complete) and no analytics event is logged for the call.
C5_StoreFailureSurfaces ==
    \A c \in Calls :
       call[c].store_failed =>
          /\ call[c].pc = "done"
          /\ call[c].result.status = 500
          /\ call[c].wrote = ""
          /\ call[c].chan = "ws" => call[c].final \in {"error", "crashed"}
          /\ (call[c].chan = "ws" /\ sock[call[c].websocket] = "open") =>
                /\ call[c].final = "error"
                /\ outbox[call[c].websocket] # <<>>
                /\ LET last == outbox[call[c].websocket]
                                  [Len(outbox[call[c].websocket])]
                   IN  last.call = c => last.type = "error"
          /\ \A i \in DOMAIN events : events[i].call # c

\* store_translation has failed for a POST /api/translate, answered 500, and
\* for a translate message, answered by an error frame
C5_Witness ==
    \E c, d \in Calls :
       /\ call[c].chan = "http" /\ call[c].store_failed
       /\ call[c].result.status = 500
       /\ call[d].chan = "ws" /\ call[d].store_failed
       /\ call[d].final = "error"
       /\ clickhouse

\* C6: analytics isolation.  What a POST /api/translate call answers is fixed
\* by what the other services did: 200 with the response built before the
\* store when store_translation wrote, 500 otherwise, whether ClickHouse is
\* absent, fails or logs the event; and the analytics step changes neither
\* the collection nor the response.
C6_AnalyticsIsolation ==
    [][\A c \in Calls :
          (call[c].pc # "done" /\ call'[c].pc = "done" /\ call'[c].chan = "http") =>
             /\ call'[c].result =
                   IF call'[c].wrote # ""
                   THEN Result(200, call'[c].response)
                   ELSE Result(500, NoResponse)
             /\ call[c].pc = "log" =>
                   /\ translations' = translations
                   /\ call'[c].response = call[c].response
                   /\ call'[c].wrote = call[c].wrote /\ call[c].wrote # ""
                   /\ call'[c].written = call[c].written
      ]_vars

\* with ClickHouse present, one call's event was lost and another's logged,
\* and both were answered 200
C6_Witness ==
    \E c, d \in Calls :
       /\ clickhouse
       /\ call[c].pc = "done" /\ call[c].result.status = 200
       /\ call[d].pc = "done" /\ call[d].result.status = 200
       /\ call[c].user_agent /\ call[d].user_agent
       /\ \A i \in DOMAIN events : events[i].call # c
       /\ \E i \in DOMAIN events : events[i].call = d

\* the store_translation calls for `term` that have written, in call order
Stored(term) ==
    { c \in Calls : call[c].pc = "done" /\ call[c].term = term /\ call[c].wrote # "" }

SetMin(S) == CHOOSE x \in S : \A y \in S : x <= y
SetMax(S) == CHOOSE x \in S : \A y \in S : x >= y

\* C7: however concurrent store_translation calls for one term interleave,
\* the collection holds at most one record for the term, and the record's
\* explanation, category and embedding come from the same call.
C7_OneRecordPerTerm ==
    /\ \A i, j \in DOMAIN translations :
          translations[i].term = translations[j].term => i = j
    /\ \A i \in DOMAIN translations :
          /\ translations[i].explanation.by = translations[i].category.by
          /\ translations[i].category.by = translations[i].embedding.by

\* C8: after store_translation calls made one after another for one term,
\* exactly one record has the term; its explanation, category and embedding
\* are those of the last call that wrote, its created_at that of the first
\* and its updated_at that of the last.
C8_SequentialUpsert ==
    \A c \in Calls :
       LET S == Stored(call[c].term)
           first == call[SetMin(S)]
           last == call[SetMax(S)]
           R == { i \in DOMAIN translations : translations[i].term = call[c].term }
       IN  c \in S =>
              /\ Cardinality(R) = 1
              /\ \A i \in R :
                    /\ translations[i].explanation = last.response.explanation
                    /\ translations[i].explanation.by = SetMax(S)
                    /\ translations[i].category = last.response.category
                    /\ translations[i].category.by = SetMax(S)
                    /\ translations[i].embedding = last.ai_analysis.embedding
                    /\ translations[i].embedding.by = SetMax(S)
                    /\ translations[i].created_at = first.created_at
                    /\ translations[i].updated_at =
                          IF SetMax(S) = SetMin(S) THEN first.created_at
                          ELSE last.updated_at
                    /\ first.wrote = "insert"
                    /\ SetMax(S) # SetMin(S) => last.wrote = "update"

\* three calls for one term have written, one after another
C8_Witness ==
    \E t \in Terms :
       /\ Cardinality(Stored(t)) = 3
       /\ \E i \in DOMAIN translations :
             /\ translations[i].term = t
             /\ translations[i].updated_at > translations[i].created_at
             /\ translations[i].embedding.by = 3
       /\ NoCallRunning

\* C9: the record's sessions set holds the session id of every
\* store_translation call that wrote the term, the inserting call's included.
C9_SessionsComplete ==
    \A c \in Calls :
       (call[c].pc = "done" /\ call[c].wrote # "") =>
          \A i \in DOMAIN translations :
             translations[i].term = call[c].term =>
                call[c].metadata.session_id \in translations[i].sessions

\* C10: a connect for a session id that is registered with a live transport
\* fails: the registration (transport, connected_at, group membership) stays
\* as it was, so a session id never passes from one live transport to another.
C10_ConnectRegisteredFails ==
    [][\A w \in Sockets :
          LET s == endpoint'[w].session_id
          IN  ( /\ endpoint[w].state = "new" /\ endpoint'[w].state = "receiving"
                /\ active_connections[s] # None
                /\ sock[active_connections[s]] = "open" ) =>
                 /\ active_connections'[s] = active_connections[s]
                 /\ connection_metadata'[s].connected_at =
                       connection_metadata[s].connected_at
                 /\ \A g \in GroupNames : (s \in groups'[g]) <=> (s \in groups[g])
      ]_vars

\* session_id is known nowhere in the manager: no connection, no metadata,
\* no group membership
Unregistered(session_id) ==
    /\ active_connections[session_id] = None
    /\ ~connection_metadata[session_id].has
    /\ \A g \in GroupNames : session_id \notin groups[g]

\* C11: disconnect is idempotent: a disconnect of a session id that is not
\* registered (a second disconnect in a row, or a never-registered id)
\* changes no manager state and emits no message to any socket, so the
\* remaining members see one session_disconnected per session, not two.
C11_DisconnectIdempotent ==
    [][\A w \in Sockets :
          ( /\ endpoint[w].state = "receiving" /\ endpoint'[w].state = "closed"
            /\ Unregistered(endpoint[w].session_id) ) =>
              UNCHANGED << managerVars, outbox >>
      ]_vars

\* the frames appended to socket w by the step
Sent(w) == SubSeq(outbox'[w], Len(outbox[w]) + 1, Len(outbox'[w]))

\* the positions of seq whose frame has this type and names this session
Positions(seq, type, session_id) ==
    {i \in DOMAIN seq : seq[i].type = type /\ seq[i].session = session_id}

\* the receive loop of socket w takes a message of this kind in the step
Takes(w, kind) ==
    /\ endpoint'[w].received = endpoint[w].received + 1
    /\ endpoint'[w].message = kind

\* C12: a connect of an unregistered session id S leaves S registered with
\* status connected and in active_sessions; the first frame S gets is
\* connection_established, a session_connected frame follows it, and every
\* member of active_sessions with a live transport (S included) gets one
\* session_connected frame for S whose total_active is the number of
\* registered connections at the broadcast.
C12_ConnectAnnounces ==
    [][\A w \in Sockets :
          LET s == endpoint'[w].session_id
              total == TotalActive(Manager) + 1
              frame == Msg("session_connected", s, "", total, 0)
          IN  ( /\ endpoint[w].state = "new" /\ endpoint'[w].state = "receiving"
                /\ Unregistered(s) ) =>
                 /\ active_connections'[s] = w
                 /\ connection_metadata'[s].has
                 /\ connection_metadata'[s].status = "connected"
                 /\ s \in groups'["active_sessions"]
                 /\ Len(outbox'[w]) >= 2
                 /\ outbox'[w][1] = Msg("connection_established", s, "", 0, 0)
                 /\ Positions(outbox'[w], "connection_established", s) = {1}
                 /\ \A m \in groups["active_sessions"] \cup {s} :
                       LET v == active_connections'[m]
                       IN  (m = s \/ sock[active_connections[m]] = "open") =>
                              /\ v # None
                              /\ Cardinality(Positions(Sent(v), "session_connected", s)) = 1
                              /\ \A i \in Positions(Sent(v), "session_connected", s) :
                                    Sent(v)[i] = frame
      ]_vars

\* session 1 is connected on a live socket when session 2 connects: both get
\* session_connected for session 2 with total_active 2, session 2 after its
\* connection_established
C12_Witness ==
    /\ active_connections[1] = 1 /\ active_connections[2] = 2
    /\ sock[1] = "open"
    /\ outbox[2] = << Msg("connection_established", 2, "", 0, 0),
                      Msg("session_connected", 2, "", 2, 0) >>
    /\ outbox[1] = << Msg("connection_established", 1, "", 0, 0),
                      Msg("session_connected", 1, "", 1, 0),
                      Msg("session_connected", 2, "", 2, 0) >>

\* the frames the task of translate call c has sent, in order
FramesOf(c) ==
    IF call[c].websocket = None THEN <<>>
    ELSE SelectSeq(outbox[call[c].websocket], LAMBDA m : m.call = c)

FinalTypes == {"translation_complete", "error"}

\* C13: the task of a translate message sends status(processing) first and
\* then one final frame, translation_complete or error, never both and never
\* a final frame before the status; when the task has ended on a transport
\* that took its sends, it has sent exactly the two, whether
\* translate_technical_term returned or raised.
C13_StatusThenOneFinal ==
    \A c \in Calls :
       call[c].chan = "ws" =>
          LET fs == FramesOf(c)
          IN  /\ Len(fs) <= 2
              /\ Len(fs) >= 1 => fs[1].type = "status" /\ fs[1].info = "processing"
              /\ Len(fs) = 2 => fs[2].type \in FinalTypes
              /\ (call[c].pc = "done" /\ call[c].final # "crashed") => Len(fs) = 2
              /\ call[c].pc # "done" => Len(fs) <= 1

\* two translate messages handled on an open socket: one whose
\* translate_technical_term returned, one whose translate_technical_term
\* raised; each task sent status and then one final frame
C13_Witness ==
    \E c, d \in Calls :
       /\ call[c].chan = "ws" /\ call[c].pc = "done" /\ call[c].result.status = 200
       /\ call[d].chan = "ws" /\ call[d].pc = "done" /\ call[d].result.status = 500
       /\ Len(FramesOf(c)) = 2 /\ FramesOf(c)[2].type \in FinalTypes
       /\ Len(FramesOf(d)) = 2 /\ FramesOf(d)[2].type \in FinalTypes

\* the task of translate call c is suspended at the await of an adapter call
Suspended(c) ==
    call[c].pc \in {"search", "search_text", "web", "analyze", "store_find",
                    "store_write", "log"}

\* C14: message handling does not block: while the task of a translate
\* message is suspended at an adapter call, the receive loop of every
\* connected socket, the task's own included, can take a further translate
\* message and dispatch it.
C14_ReceiveLoopNeverBlocked ==
    \A c \in Calls :
       (call[c].chan = "ws" /\ Suspended(c)) =>
          \A w \in Sockets, d \in 1..MaxDispatchCalls :
             (endpoint[w].state = "receiving" /\ sock[w] = "open" /\ NextCall(d)) =>
                ENABLED DispatchTranslate(d, w, {<<"a", "b">>})

\* the translate of session 2, dispatched after the translate of session 1,
\* has delivered its final frame while the task of session 1 is still
\* suspended at an adapter call
C14_Witness ==
    /\ call[1].chan = "ws" /\ call[1].websocket = 1 /\ Suspended(1)
    /\ call[2].chan = "ws" /\ call[2].websocket = 2 /\ call[2].pc = "done"
    /\ Len(FramesOf(2)) = 2 /\ FramesOf(2)[2].type \in FinalTypes
    /\ Len(FramesOf(1)) = 1

\* C15: a translate task whose session went away while it was in flight is
\* not aborted: when it has ended on a transport that refused a send,
\* translate_technical_term has run to its end (returned or raised after its
\* pipeline stages), and the task has delivered nothing but the status frame.
C15_TaskOutlivesDisconnect ==
    \A c \in Calls :
       (call[c].chan = "ws" /\ call[c].pc = "done" /\ call[c].final = "crashed") =>
          /\ call[c].result.status # 0
          /\ Len(FramesOf(c)) <= 1

\* C16: a failed operation never closes the socket: the endpoint of a socket
\* calls disconnect and returns only when the transport itself has
\* disconnected, never on a message it could not handle.
C16_OnlyTransportDisconnects ==
    [][\A w \in Sockets :
          (endpoint[w].state = "receiving" /\ endpoint'[w].state = "closed") =>
             sock[w] \in {"gone_wsd", "gone_err"}
      ]_vars

\* C17: a message whose type matches no branch is ignored: the step in which
\* the receive loop takes it sends no frame on any socket, spawns no task,
\* changes nothing in the session manager and leaves the endpoint receiving
\* on an open socket.
C17_UnknownTypeIgnored ==
    [][\A w \in Sockets :
          Takes(w, "unknown") =>
              /\ UNCHANGED << outbox, call, managerVars >>
              /\ endpoint'[w].state = "receiving"
              /\ sock'[w] = "open"
      ]_vars

\* the receive loop of socket 1 has taken a message of an unknown type and,
\* after it, a further message; the socket stayed open and got nothing for
\* the first
C17_Witness ==
    /\ endpoint[1].received = 2
    /\ endpoint[1].message = "start_transcription"
    /\ endpoint[1].state = "receiving"
    /\ sock[1] = "open"
    /\ outbox[1] = << Msg("connection_established", 1, "", 0, 0),
                      Msg("session_connected", 1, "", 1, 0) >>
                      \o ProcessStreamingTranscription(1).sent

\* C18: when a broadcast to active_sessions (made by connect and by
\* disconnect) reaches a member whose transport refuses the send, whatever
\* the error, that member is in no table and no group once the broadcast has
\* returned, and every member whose transport is open has got the message.
C18_FailedMemberDropped ==
    [][\A w \in Sockets :
          endpoint'[w].state # endpoint[w].state =>
             \A m \in groups["active_sessions"] \ {endpoint'[w].session_id} :
                IF sock[active_connections[m]] = "open"
                THEN Len(outbox'[active_connections[m]]) >
                        Len(outbox[active_connections[m]])
                ELSE /\ active_connections'[m] = None
                     /\ ~connection_metadata'[m].has
                     /\ \A g \in GroupNames : m \notin groups'[g]
      ]_vars

\* C19: after start_transcription, an audio_chunk that leaves the buffer at
\* BufferThreshold bytes or fewer emits nothing and stays buffered; one that
\* makes the buffer longer emits exactly one partial_transcription and leaves
\* the buffer empty.
C19_OnePartialPerCrossing ==
    [][\A w \in Sockets :
          LET s == endpoint[w].session_id
          IN  ( /\ Takes(w, "audio_chunk")
                /\ Positions(outbox[w], "transcription_started", s) # {} ) =>
                 /\ transcription_sessions # NoAttribute
                 /\ transcription_sessions[s] # None
                 /\ \E n \in ChunkSizes :
                       IF transcription_sessions[s].buffer + n > BufferThreshold
                       THEN /\ Sent(w) = << Msg("partial_transcription", s, "", 0, 0) >>
                            /\ transcription_sessions'[s].buffer = 0
                       ELSE /\ Sent(w) = <<>>
                            /\ transcription_sessions'[s].buffer =
                                  transcription_sessions[s].buffer + n
      ]_vars

\* C20: once a start_transcription message of session S is handled, the
\* manager holds a sub-session for S with an empty buffer and active = TRUE,
\* and transcription_started is the only frame the handling sent.
C20_TranscriptionSessionOpened ==
    [][\A w \in Sockets :
          LET s == endpoint[w].session_id
          IN  Takes(w, "start_transcription") =>
                 /\ transcription_sessions' # NoAttribute
                 /\ transcription_sessions'[s] = TranscriptionSession(0, TRUE)
                 /\ Sent(w) = << Msg("transcription_started", s, "", 0, 0) >>
      ]_vars

\* the positions of seq whose frame has this type and this status/info text
FramesAt(seq, type, info) ==
    {i \in DOMAIN seq : seq[i].type = type /\ seq[i].info = info}

\* C21: a voice_input with an audio payload whose transcription fails gets
\* exactly one error and the translation is never started (no lookup, no
\* analysis, nothing written); when the transcription succeeds,
\* transcription_complete precedes status(processing) and the translation
\* result, and the transcribed text is what is translated.  Without audio the
\* given text goes straight into the translate flow.
C21_VoiceInputFlow ==
    \A c \in Calls :
       call[c].voice # "" =>
          LET fs == FramesOf(c)
              done == FramesAt(fs, "transcription_complete", "")
              failed == FramesAt(fs, "error", "transcription")
              translating == FramesAt(fs, "status", "processing")
                                \cup {i \in DOMAIN fs : fs[i].type \in FinalTypes}
          IN  /\ Len(fs) >= 1 => fs[1] = Msg("status", call[c].session_id,
                                            "processing_voice", 0, c)
              /\ call[c].voice = "audio" =>
                    /\ failed # {} =>
                          /\ Len(fs) = 2 /\ failed = {2}
                          /\ call[c].pc = "done"
                          /\ call[c].result.status = 0
                          /\ call[c].web_calls = 0
                          /\ call[c].ai_analysis = NoAnalysis
                          /\ call[c].wrote = ""
                    /\ failed = {} =>
                          /\ \A i \in translating : done = {2} /\ i > 2
                          /\ call[c].pc \notin {"idle", "voice_status", "transcribe",
                                                "ws_status", "done"} =>
                                call[c].term = TranscribedText
              /\ call[c].voice = "text" =>
                    /\ done = {} /\ failed = {}
                    /\ call[c].term = <<"a", "b">>
                    /\ Len(fs) >= 2 => fs[2] = Msg("status", call[c].session_id,
                                                  "processing", 0, c)

\* one voice_input with audio whose transcription failed, and one whose
\* transcription succeeded and whose translation delivered its final frame
C21_Witness ==
    \E c, d \in Calls :
       /\ call[c].voice = "audio" /\ call[c].pc = "done"
       /\ FramesAt(FramesOf(c), "error", "transcription") = {2}
       /\ call[d].voice = "audio" /\ call[d].pc = "done"
       /\ call[d].term = TranscribedText /\ call[d].result.status = 200
       /\ FramesAt(FramesOf(d), "transcription_complete", "") = {2}
       /\ FramesAt(FramesOf(d), "status", "processing") = {3}
       /\ Len(FramesOf(d)) >= 4 /\ FramesOf(d)[4].type \in FinalTypes

\* the sessions whose last activity lies more than timeout before time t
Inactive(timeout, t) ==
    {s \in SessionIds :
       connection_metadata[s].has /\ t - connection_metadata[s].last_activity > timeout}

\* C22: cleanup_inactive_connections(timeout) raises nothing, unregisters
\* exactly the sessions whose time since last_activity exceeds the timeout,
\* leaves the others registered and returns how many it disconnected.
C22_CleanupInactive ==
    [][(reply = NoReply /\ reply'.op = "cleanup") =>
          /\ reply'.raised = ""
          /\ reply'.value = Cardinality(Inactive(reply'.arg, now))
          /\ \A s \in SessionIds :
                IF s \in Inactive(reply'.arg, now)
                THEN active_connections'[s] = None /\ ~connection_metadata'[s].has
                ELSE active_connections'[s] = active_connections[s]
      ]_vars

\* C23: while a session stays registered on its socket, last_activity never
\* decreases, and every step that takes a message from the socket or sends a
\* frame on it (the frames of the tasks included) brings last_activity up to
\* the time of the step.
C23_LastActivityAdvances ==
    [][\A s \in SessionIds :
          LET w == active_connections[s]
          IN  (w # None /\ active_connections'[s] = w /\ connection_metadata'[s].has) =>
                 /\ connection_metadata'[s].last_activity >=
                       connection_metadata[s].last_activity
                 /\ ( \/ endpoint'[w].received > endpoint[w].received
                      \/ Len(outbox'[w]) > Len(outbox[w]) ) =>
                        connection_metadata'[s].last_activity >= now
      ]_vars

\* the task of translate call c has been dispatched and has not ended
InFlight(c) == call[c].chan = "ws" /\ call[c].pc \notin {"idle", "done"}

\* C24: the status of a registered session is one of connected, listening,
\* processing, idle; while a translate task of a session registered on the
\* task's socket is in flight the session has status processing and is in
\* the processing group, and once no task of it is in flight it is not.
C24_StatusFollowsTasks ==
    \A s \in SessionIds :
       connection_metadata[s].has =>
          /\ connection_metadata[s].status \in
                {"connected", "listening", "processing", "idle"}
          /\ LET busy == \E c \in Calls :
                            /\ InFlight(c) /\ call[c].session_id = s
                            /\ active_connections[s] = call[c].websocket
             IN  /\ busy => /\ connection_metadata[s].status = "processing"
                            /\ s \in groups["processing"]
                 /\ ~busy => s \notin groups["processing"]

\* C25: a translate request with an empty input_text is rejected before any
\* adapter is called: the call never waits for the lookup, the web search,
\* the analysis, the store or the analytics, and leaves no record and no
\* event.
C25_EmptyInputRejected ==
    /\ \A c \in Calls :
          (call[c].chan \in {"http", "ws"} /\ call[c].voice = "" /\ call[c].term = <<>>) =>
             /\ call[c].pc \in {"ws_status", "done"}
             /\ call[c].result.status # 200
             /\ call[c].web_calls = 0
             /\ call[c].ai_analysis = NoAnalysis
             /\ call[c].wrote = ""
    /\ \A i \in DOMAIN translations : translations[i].term # <<>>
    /\ \A i \in DOMAIN events : events[i].term # <<>>

\* C26: the embedding of every analysis that analyze_technical_term returns,
\* and of every record a translate call persists, has VectorDimension
\* components, whatever the providers answered.
C26_EmbeddingDimension ==
    /\ \A c \in Calls :
          (call[c].chan \in {"http", "ws"} /\ call[c].raw_kind # "") =>
             /\ call[c].ai_analysis.embedding.len = VectorDimension
             /\ call[c].wrote # "" => call[c].written.len = VectorDimension
    /\ \A i \in DOMAIN translations :
          translations[i].embedding.len = VectorDimension

\* C27: when the text analysis parsed and the embedding call raised, the
\* analysis keeps the provider's explanation, category, (clamped) confidence
\* and business_impact, its sources do not name the fallback, and its
\* embedding is the zero vector of VectorDimension components.
C27_EmbeddingFailureKeepsText ==
    \A c \in Calls :
       ( /\ call[c].chan \in {"http", "ws"}
         /\ call[c].raw_kind = "object" /\ call[c].raw_fault = ""
         /\ call[c].emb_kind = "raise" ) =>
          LET ai == call[c].ai_analysis
              raw == RawObject(c, call[c].raw_confidence.n)
          IN  /\ ai.explanation = raw.explanation
              /\ ai.category = raw.category
              /\ ai.business_impact = raw.business_impact
              /\ ai.confidence = Num(Max(0, Min(100, raw.confidence.n)), c)
              /\ \A i \in DOMAIN ai.sources : ai.sources[i] # "fallback"
              /\ ai.embedding = Embedding(VectorDimension, TRUE, c)
              /\ call[c].pc = "done" /\ ~call[c].store_failed =>
                    /\ call[c].result.status = 200
                    /\ call[c].result.body.explanation = raw.explanation
                    /\ call[c].written = Embedding(VectorDimension, TRUE, c)

\* a call whose text analysis parsed and whose embedding call raised has
\* returned the provider's explanation and stored the zero vector
C27_Witness ==
    \E c \in Calls :
       /\ call[c].raw_kind = "object" /\ call[c].raw_fault = ""
       /\ call[c].emb_kind = "raise" /\ call[c].pc = "done"
       /\ call[c].result.status = 200
       /\ call[c].result.body.explanation = Str("provider explanation", c)
       /\ \E i \in DOMAIN translations :
             translations[i].embedding = Embedding(VectorDimension, TRUE, c)

\* the provider's confidence (in hundredths) brought into [0, 1]
Clamped(n) == IF n > 100 THEN 100 ELSE IF n < 0 THEN 0 ELSE n

\* C28: the confidence of every analysis lies within [0, 1]; when the
\* provider's answer parsed, it is the provider's confidence with a value
\* above 1 made 1.0, a value below 0 made 0.0 and a value in range kept, and
\* that is the confidence the call returns and stores.
C28_ConfidenceClamped ==
    \A c \in Calls :
       (call[c].chan \in {"http", "ws"} /\ call[c].raw_kind # "") =>
          LET ai == call[c].ai_analysis
              parsed == /\ call[c].raw_kind = "object"
                        /\ call[c].raw_fault \notin {"missing_field", "malformed_confidence"}
          IN  /\ ai.confidence.t = "num"
              /\ ai.confidence.n >= 0 /\ ai.confidence.n <= 100
              /\ parsed => ai.confidence.n = Clamped(call[c].raw_confidence.n)
              /\ (parsed /\ call[c].raw_fault = "" /\ call[c].pc = "done"
                    /\ ~call[c].store_failed) =>
                    /\ call[c].result.status = 200
                    /\ call[c].result.body.confidence.n = Clamped(call[c].raw_confidence.n)
                    /\ call[c].metadata.confidence.n = Clamped(call[c].raw_confidence.n)

\* a call whose provider answered confidence 1.7 has returned 1.0 and stored
\* 1.0 with its record
C28_Witness ==
    \E c \in Calls :
       /\ call[c].raw_confidence = Num(170, c) /\ call[c].pc = "done"
       /\ call[c].result.status = 200
       /\ call[c].result.body.confidence = Num(100, c)
       /\ \E i \in DOMAIN translations :
             translations[i].metadata.confidence = Num(100, c)

\* the step in which translate call c has its record written by update_one or
\* insert_one
Persists(c) == call[c].wrote = "" /\ call'[c].wrote # ""

\* the record store_translation of call c wrote: the one find_one had found,
\* or the one inserted
PersistedRecord(c) ==
    IF call'[c].existing # None
    THEN CHOOSE i \in DOMAIN translations' : translations'[i].id = call'[c].existing
    ELSE Len(translations')

\* C29: within one translate call the session id is resolved once: it is the
\* request's session id when one is given and a fresh id otherwise, for a
\* real-time translate it is the session id of the sending connection, and the
\* response, the metadata of the persisted record and the analytics event of
\* the call all carry that one id.
C29_SessionIdResolvedOnce ==
    [][\A c \in Calls :
          call'[c].chan \in {"http", "ws"} =>
             LET r == call'[c]
             IN  /\ r.session_id = IF r.given # None THEN r.given ELSE FreshSessionId(c)
                 /\ (call[c].pc = "idle" /\ r.chan = "ws") =>
                        r.session_id = endpoint[r.websocket].session_id
                 /\ r.response # NoResponse => r.response.session_id = r.session_id
                 /\ r.result.status = 200 => r.result.body.session_id = r.session_id
                 /\ Persists(c) =>
                        translations'[PersistedRecord(c)].metadata.session_id = r.session_id
                 /\ \A i \in DOMAIN events' :
                        events'[i].call = c => events'[i].session_id = r.session_id]_vars

\* C30: the synthesize endpoint answers 503 when the voice provider is
\* unconfigured, 400 when it is configured and the text is missing, and 500
\* only when the synthesis failed or gave no audio.
C30_SynthesizeStatuses ==
    \A k \in SynthesisCalls :
       LET r == synthesis[k]
       IN  r.pc = "done" =>
              /\ VoiceUnconfigured(r.api_key) => r.status = 503
              /\ (~VoiceUnconfigured(r.api_key) /\ TextMissing(r.text)) => r.status = 400
              /\ r.status = 500 =>
                    (~VoiceUnconfigured(r.api_key) /\ ~TextMissing(r.text))

\* the next step of the task of translate message c, whichever await it is at
TaskStep(c) ==
    \/ SendStatus(c)
    \/ SearchExact(c)
    \/ SearchText(c)
    \/ WebSearch(c)
    \/ call[c].pc = "analyze" /\ Analyze(c, BasicOutputs(c), {"vector"})
    \/ StoreFind(c)
    \/ StoreWrite(c)
    \/ LogAnalytics(c)

\* the position in the outbox of its socket of the final frame of call c
FinalPosition(c) ==
    CHOOSE i \in DOMAIN outbox[call[c].websocket] :
       LET m == outbox[call[c].websocket][i]
       IN  m.call = c /\ m.type \in FinalTypes

\* C31: no per-session serialization: while the tasks of two translate
\* messages m1, m2 of one socket are both in flight, each of them can take its
\* next step, so neither waits for the other and either can emit its final
\* frame first.
C31_NoSessionSerialization ==
    \A c, d \in Calls :
       (c < d /\ InFlight(c) /\ InFlight(d) /\ call[c].websocket = call[d].websocket) =>
          ENABLED TaskStep(c) /\ ENABLED TaskStep(d)

\* two translate messages of one socket, both ended with a final frame: the
\* final frame of the later message precedes that of the earlier one
C31_Witness ==
    /\ call[1].chan = "ws" /\ call[2].chan = "ws"
    /\ call[1].websocket = call[2].websocket
    /\ call[1].pc = "done" /\ call[1].final \in FinalTypes
    /\ call[2].pc = "done" /\ call[2].final \in FinalTypes
    /\ FinalPosition(2) < FinalPosition(1)

\* C32: the confidence in the metadata of a term's record is the confidence of
\* the most recent successful translate call for the term: the step in which
\* a call's store_translation writes the record leaves the call's confidence
\* in the record's metadata.
C32_MetadataTracksLastConfidence ==
    [][\A c \in Calls :
          (call'[c].chan \in {"http", "ws"} /\ Persists(c)) =>
             translations'[PersistedRecord(c)].metadata.confidence.n =
                call'[c].metadata.confidence.n]_vars

\* in manager M the keys of active_connections, the keys of
\* connection_metadata and the members of active_sessions are one set, and
\* the two status groups lie within it
Consistent(M) ==
    LET connected == {s \in SessionIds : M.ac[s] # None}
    IN  /\ {s \in SessionIds : M.meta[s].has} = connected
        /\ M.groups["active_sessions"] = connected
        /\ M.groups["listening"] \subseteq connected
        /\ M.groups["processing"] \subseteq connected

\* C33: in every state reached through connect, disconnect,
\* send_personal_message, broadcast_to_group and cleanup the connection table,
\* the metadata table and active_sessions hold the same session ids and the
\* listening and processing groups are subsets of them; so it is after each
\* of these operations and after the synchronous part of a connect, from
\* every such state.
C33_TablesAgree ==
    /\ Consistent(Manager)
    /\ \A s \in SessionIds :
          /\ Consistent(Disconnect(Manager, s, now))
          /\ Consistent(SendPersonalMessage(Manager, s, Msg("ping", s, "", 0, 0), now))
          /\ \A w \in Sockets :
                sock[w] = "new" =>
                   /\ Consistent(ConnectRegistered([Manager EXCEPT !.sock[w] = "open"],
                                                   w, s, now))
                   /\ Consistent(ConnectManager([Manager EXCEPT !.sock[w] = "open"],
                                                w, s, now))
    /\ \A g \in GroupNames :
          Consistent(BroadcastToGroup(Manager, g, Msg("ping", 0, "", 0, 0), now))
    /\ \A timeout_minutes \in Timeouts :
          Consistent(CleanupInactiveConnections(Manager, timeout_minutes, now).M)

\* a session is registered, the session of a closed endpoint has been
\* unregistered by disconnect, and cleanup has been called
C33_Witness ==
    /\ reply.op = "cleanup"
    /\ \E w \in Sockets :
          endpoint[w].state = "closed" /\ Unregistered(endpoint[w].session_id)
    /\ \E s \in SessionIds :
          /\ active_connections[s] # None /\ connection_metadata[s].has
          /\ s \in groups["active_sessions"]

\* C34: a disconnect triggered by a transport unregisters its session id only
\* if that transport is the one registered for the id: when the endpoint of a
\* stale transport w ends while a newer transport holds the session id, the
\* newer registration (transport, metadata, membership) stays.
C34_StaleDisconnectKeepsNewer ==
    [][\A w \in Sockets :
          LET s == endpoint[w].session_id
          IN  ( /\ endpoint[w].state = "receiving" /\ endpoint'[w].state = "closed"
                /\ active_connections[s] \notin {None, w} ) =>
                 /\ active_connections'[s] = active_connections[s]
                 /\ connection_metadata'[s] = connection_metadata[s]
                 /\ s \in groups'["active_sessions"]
      ]_vars

\* C35: no audio byte is lost: the bytes of every audio_chunk message taken
\* for a session whose transcription was started are, once the chunk's task
\* has run, in the session's buffer together with the bytes that were there,
\* or the buffer has been flushed with them and is empty.
C35_NoAudioByteLost ==
    [][\A w \in Sockets :
          LET s == endpoint[w].session_id
          IN  ( /\ Takes(w, "audio_chunk")
                /\ Positions(outbox[w], "transcription_started", s) # {} ) =>
                 /\ transcription_sessions' # NoAttribute
                 /\ transcription_sessions'[s] # None
                 /\ \E n \in ChunkSizes :
                       LET held == IF transcription_sessions = NoAttribute THEN 0
                                   ELSE transcription_sessions[s].buffer
                       IN  \/ transcription_sessions'[s].buffer = held + n
                           \/ /\ held + n > BufferThreshold
                              /\ transcription_sessions'[s].buffer = 0
      ]_vars

\* the analytics events of translate call c
EventsOf(c) == {i \in DOMAIN events : events[i].call = c}

\* the analytics step of call c ends with the call's event appended
LogsEvent(c) ==
    /\ LogAnalytics(c)
    /\ events' = Append(events, Event(call[c].session_id, call[c].term,
                                      call[c].response.category,
                                      call[c].response.confidence, c))

\* C36: a translate call that returns successfully while ClickHouse is there
\* and accepts the INSERT has appended exactly one event with its session id,
\* term, category and confidence, whether or not the request gave a
\* user_agent: a call at its analytics step has no event yet and can end the
\* step with its event appended, and no call ever has more than one.
C36_OneEventPerTranslate ==
    \A c \in Calls :
       /\ Cardinality(EventsOf(c)) <= 1
       /\ call[c].pc = "log" => (EventsOf(c) = {} /\ ENABLED LogsEvent(c))

\* the analysis of call c is the degraded one: the text model raised or its
\* answer did not parse
Degraded(c) ==
    \/ call[c].raw_kind # "object"
    \/ call[c].raw_fault \in {"missing_field", "malformed_confidence"}

\* the tags of a sources list
Tags(sources) == {sources[i] : i \in DOMAIN sources}

\* C37: the sources of a translate response follow the stages that ran:
\* <<"fallback">> alone exactly when the degraded analysis was used; otherwise
\* no "fallback", "ai_analysis" last, "internal_knowledge_base" iff the lookup
\* returned a candidate, "web_search" iff the web search was invoked and
\* returned a result, and so no "web_search" when the top score is 0.8 or more.
C37_SourcesFollowStages ==
    \A c \in Calls :
       (call[c].chan \in {"http", "ws"} /\ call[c].response # NoResponse) =>
          LET sources == call[c].response.sources
              found == call[c].vector_results
          IN  IF Degraded(c)
              THEN sources = <<"fallback">>
              ELSE /\ "fallback" \notin Tags(sources)
                   /\ Cardinality(Tags(sources)) = Len(sources)
                   /\ sources[Len(sources)] = "ai_analysis"
                   /\ ("internal_knowledge_base" \in Tags(sources)) <=> (found # <<>>)
                   /\ ("web_search" \in Tags(sources)) <=>
                         (call[c].web_calls = 1 /\ call[c].web_results.count > 0)
                   /\ (found # <<>> /\ ~ScoreLess(found[1].score, Score(8, 10))) =>
                         "web_search" \notin Tags(sources)

\* one call found nothing, searched the web with results and answered with
\* web_search and ai_analysis; another found the stored record, made no web
\* search and answered with internal_knowledge_base and ai_analysis
C37_Witness ==
    \E c, d \in Calls :
       /\ call[c].pc = "done" /\ call[c].result.status = 200
       /\ call[c].result.body.sources = <<"web_search", "ai_analysis">>
       /\ call[d].pc = "done" /\ call[d].result.status = 200
       /\ call[d].web_calls = 0
       /\ call[d].result.body.sources = <<"internal_knowledge_base", "ai_analysis">>

\* a translate call other than c has returned 200 for the term of call c,
\* in whatever letter case, after its store_translation wrote the record
Translated(c) ==
    \E d \in Calls \ {c} :
       /\ call[d].pc = "done" /\ call[d].result.status = 200 /\ call[d].wrote # ""
       /\ Lower(call[d].term) = Lower(call[c].term)

\* the lookup of call c answers with a record of the call's term on top at
\* score 1.0, and the call goes on to the analysis without a web search
FindsStored(c) ==
    /\ SearchExact(c)
    /\ call'[c].pc = "analyze"
    /\ call'[c].vector_results # <<>>
    /\ call'[c].vector_results[1].score = Score(1, 1)
    /\ Lower(call'[c].vector_results[1].term) = Lower(call[c].term)

\* C38: store-then-lookup round trip: once translate of a term has returned
\* successfully, the lookup of a later translate of the term, in any letter
\* case, can answer with the stored record on top at score 1.0; and a call
\* whose lookup gave a top score of 1.0 makes no web search and names
\* internal_knowledge_base among its sources unless its analysis is degraded.
C38_StoreThenLookup ==
    \A c \in Calls :
       /\ (call[c].pc = "search" /\ Translated(c)) => ENABLED FindsStored(c)
       /\ ( /\ call[c].chan = "http" /\ call[c].response # NoResponse
            /\ call[c].vector_results # <<>>
            /\ call[c].vector_results[1].score = Score(1, 1) ) =>
              /\ call[c].web_calls = 0
              /\ \/ Degraded(c)
                 \/ "internal_knowledge_base" \in Tags(call[c].response.sources)

\* C39: for a voice_input with synthesize_response set, status(synthesizing)
\* is emitted only after the translation_complete of that message, and never
\* after an error of its translation.
C39_SynthesizingAfterComplete ==
    \A c \in Calls :
       call[c].voice # "" =>
          LET fs == FramesOf(c)
          IN  \A i \in FramesAt(fs, "status", "synthesizing") :
                 /\ call[c].synthesize
                 /\ \E j \in 1..(i - 1) : fs[j].type = "translation_complete"
                 /\ \A j \in 1..(i - 1) : fs[j].type # "error"
====
